---- MODULE Spec2Model ----
(***************************************************************************)
(* A model of openmensa-parser-berlin: the retrying fetcher (getHttpDoc),  *)
(* the identifier catalog of main (fetchIds, unique.Sort, loadIds, diff,   *)
(* saveIds, genIndex), the generation loops of main (getMetadata,          *)
(* getMeals, getDay) and the XML serializer (Canteen.Write and the         *)
(* MarshalXML methods).  The newest program text (the second Go file kept  *)
(* in src/README.md, lines 16-517) and src/xml.go are the authority.       *)
(*                                                                         *)
(* Strings whose bytes matter (identifiers, file contents) are sequences   *)
(* of byte values; the subsystems have one specification each:             *)
(*   SpecFetch    one call of getHttpDoc, one action per POST attempt      *)
(*   SpecDiff     diff(a, b) on sorted duplicate-free lists                *)
(*   SpecCatalog  the catalog part of main over several process runs       *)
(*   SpecGen      the metadata and full-feed loops of main                 *)
(*   SpecXml      Canteen.Write                                            *)
(*   SpecMeal     the prices getDay reads from one meal block              *)
(*   SpecMeals    getMeals over clocks and day ranges                      *)
(*   SpecMetadata getMetadata: the name chain and the opening hours        *)
(*   SpecSafeName the safe names of fetchIDs (src/unnamed/part_000)        *)
(*   SpecBackup   the runs with -u (src/unnamed/part_000)                  *)
(*   SpecDay      the scan of getDay over the blocks of a day page         *)
(*   SpecNotes    the notes getDay reads from the icons of one meal        *)
(***************************************************************************)
EXTENDS Integers, Sequences, FiniteSets, TLC

VARIABLES
    http,       \* the running getHttpDoc call: loop counter, sleeps, result
    hist,       \* the upstream outcomes that call has consumed, in order
    dl,         \* the running diff(a, b) call: a, b, i, j, diff
    disk,       \* the files ids_current, ids_archive, ids_all, index.json
    cat,        \* the catalog part of main: position, locals, run counter
    gen,        \* the generation loops of main: position, locals, files
    enc,        \* one Canteen.Write: the canteen, the position, the output
    ml,         \* getDay on one meal block: its prices or its notes, the log
    fa,         \* one getMeals: the clock, the range, the Days so far
    md,         \* getMetadata after its first fetch: page, name, opening hours
    sn,         \* fetchIDs' transliteration of one display name
    bk,         \* the identifier files and their .old copies over updates
    dy          \* getDay on one menu page: the blocks, the position, the Day

fetchVars == <<http, hist>>

diffVars == <<dl>>

catVars == <<disk, cat>>

genVars == <<gen>>

xmlVars == <<enc>>

\* The variables of getDay's meal parsing, of getMeals, of getMetadata's
\* extraction, of the safe names and of the backups.
restVars == <<ml, fa, md, sn, bk, dy>>

Idle == [pc |-> "idle"]

\* The variables among ml, fa, md, sn, bk, dy that are not in use, at rest.
RestIdle(used) ==
    /\ "ml" \in used \/ ml = Idle
    /\ "fa" \in used \/ fa = Idle
    /\ "md" \in used \/ md = Idle
    /\ "sn" \in used \/ sn = Idle
    /\ "bk" \in used \/ bk = Idle
    /\ "dy" \in used \/ dy = Idle

vars == <<http, hist, dl, disk, cat, gen, enc, ml, fa, md, sn, bk, dy>>

(***************************************************************************)
(* Sequences and byte strings                                              *)
(***************************************************************************)
Range(s) == {s[k] : k \in 1..Len(s)}

SeqsUpTo(S, n) == UNION {[1..m -> S] : m \in 0..n}

\* A Go string is the sequence of its bytes.
Newline == 10

CarriageReturn == 13

Digits == 48..57

\* Go's < on strings: byte-wise lexicographic order.
RECURSIVE StrLess(_, _)
StrLess(a, b) ==
    IF a = <<>> THEN b # <<>>
    ELSE IF b = <<>> THEN FALSE
    ELSE IF a[1] # b[1] THEN a[1] < b[1]
    ELSE StrLess(Tail(a), Tail(b))

\* strings.ContainsRune(id, '\n')
ContainsNewline(id) == \E k \in 1..Len(id) : id[k] = Newline

IsNumeric(id) == id # <<>> /\ \A k \in 1..Len(id) : id[k] \in Digits

\* strconv.Atoi on a string of decimal digits (anything else is an error, for
\* which the callers keep Atoi's 0).
RECURSIVE Atoi(_)
Atoi(id) ==
    IF ~IsNumeric(id) THEN 0
    ELSE IF Len(id) = 1 THEN id[1] - 48
    ELSE 10 * Atoi(SubSeq(id, 1, Len(id) - 1)) + (id[Len(id)] - 48)

(***************************************************************************)
(* The fetcher: getHttpDoc                                                 *)
(***************************************************************************)
httpMaxRetries == 10

\* time.Second, in seconds
httpSleepStep == 1

\* http.StatusOK
StatusOK == 200

\* "bandwidth limit exceeded (inofficial)"
StatusOverloaded == 509

\* What one http.PostForm can end in: a network error, or a response with a
\* status code whose body goquery can (parse) or cannot turn into a document.
NetErr == [err |-> TRUE, status |-> 0, parse |-> FALSE]

Resp(status, parse) == [err |-> FALSE, status |-> status, parse |-> parse]

OtherStatuses == {404, 500}

Upstream ==
    {NetErr, Resp(StatusOK, TRUE), Resp(StatusOK, FALSE), Resp(StatusOverloaded, FALSE)}
        \cup {Resp(s, FALSE) : s \in OtherStatuses}

\* The call before its first attempt: i := 1, nothing slept, nothing returned.
\*   pc      "loop" while the for loop runs, "returned", or "panicked"
\*   i       the loop counter
\*   posts   how many http.PostForm calls were made
\*   sleeps  the time.Sleep durations so far, in seconds
\*   doc     "pending", "doc" (a parsed document) or "nil"
\*   aborted whether the "aborting after %d retries" line was logged
HttpStart ==
    [pc |-> "loop", i |-> 1, posts |-> 0, sleeps |-> <<>>, doc |-> "pending",
     aborted |-> FALSE]

\* HttpLoopNext with the loop condition i < httpMaxRetries (one attempt short).
HttpLoopNextShort(h) ==
    IF h.i + 1 < httpMaxRetries
    THEN [h EXCEPT !.i = h.i + 1]
    ELSE [h EXCEPT !.i = h.i + 1, !.pc = "returned", !.doc = "nil", !.aborted = TRUE]

\* The end of one loop iteration that did not return: i++, then the loop
\* condition; when it fails the function logs and returns nil.
HttpLoopNext(h) ==
    IF h.i + 1 <= httpMaxRetries
    THEN [h EXCEPT !.i = h.i + 1]
    ELSE [h EXCEPT !.i = h.i + 1, !.pc = "returned", !.doc = "nil", !.aborted = TRUE]

\* HttpSleep with a constant pause instead of the linear backoff.
HttpSleepFlat(h) == [h EXCEPT !.sleeps = Append(h.sleeps, httpSleepStep)]

\* sleepTime := time.Duration(i) * httpSleepStep; time.Sleep(sleepTime)
HttpSleep(h) == [h EXCEPT !.sleeps = Append(h.sleeps, h.i * httpSleepStep)]

\* HttpAttempt with status 500 retried like 509 (the disjunct the source has
\* commented out).
HttpAttemptRetry500(h, o) ==
    LET p == [h EXCEPT !.posts = h.posts + 1] IN
    IF o.err
    THEN HttpLoopNext(HttpSleep(p))
    ELSE IF o.status = StatusOK
    THEN IF o.parse
         THEN [p EXCEPT !.pc = "returned", !.doc = "doc"]
         ELSE [p EXCEPT !.pc = "panicked"]
    ELSE IF o.status = StatusOverloaded \/ o.status = 500
    THEN HttpLoopNext(HttpSleep(p))
    ELSE [p EXCEPT !.pc = "returned", !.doc = "nil"]

\* One iteration of the for loop, on the outcome `o` of its PostForm.
HttpAttempt(h, o) ==
    LET p == [h EXCEPT !.posts = h.posts + 1] IN
    IF o.err
    THEN HttpLoopNext(HttpSleep(p))
    ELSE IF o.status = StatusOK
    THEN IF o.parse
         THEN [p EXCEPT !.pc = "returned", !.doc = "doc"]
         ELSE [p EXCEPT !.pc = "panicked"]
    ELSE IF o.status = StatusOverloaded
    THEN HttpLoopNext(HttpSleep(p))
    ELSE [p EXCEPT !.pc = "returned", !.doc = "nil"]

\* The whole call on a script of upstream outcomes (outcomes past the return
\* are never requested).
RECURSIVE HttpRun(_, _)
HttpRun(h, script) ==
    IF h.pc # "loop" \/ script = <<>>
    THEN h
    ELSE HttpRun(HttpAttempt(h, Head(script)), Tail(script))

getHttpDoc(script) == HttpRun(HttpStart, script)

FetchIdle == HttpStart

(***************************************************************************)
(* The identifier catalog: unique.Sort, diff, saveIds, loadIds, genIndex   *)
(***************************************************************************)
\* unique.Sort(unique.StringSlice{&list}): the elements of the list, each
\* once, in increasing order of Go's string <.
RECURSIVE SortSet(_)
SortSet(S) ==
    IF S = {} THEN <<>>
    ELSE LET m == CHOOSE x \in S : \A y \in S : x = y \/ StrLess(x, y)
         IN <<m>> \o SortSet(S \ {m})

\* The list left as it is, neither sorted nor freed of duplicates.
UniqueSortNot(list) == list

UniqueSort(list) == SortSet(Range(list))

IsSorted(list) == \A k \in 1..(Len(list) - 1) : StrLess(list[k], list[k + 1])

\* diff(a, b) at its entry: i, j := 0, 0 (kept 1-based here) and an empty
\* result (diff[:k] of the source is the sequence d).
DiffStart(a, b) == [pc |-> "merge", a |-> a, b |-> b, i |-> 1, j |-> 1, d |-> <<>>]

\* DiffIter that also advances i when it keeps b[j] (a skipped element of a).
DiffIterSkip(st) ==
    IF st.i <= Len(st.a) /\ st.j <= Len(st.b)
    THEN IF StrLess(st.a[st.i], st.b[st.j])
         THEN [st EXCEPT !.i = st.i + 1]
         ELSE IF StrLess(st.b[st.j], st.a[st.i])
         THEN [st EXCEPT !.d = Append(st.d, st.b[st.j]), !.j = st.j + 1, !.i = st.i + 1]
         ELSE [st EXCEPT !.i = st.i + 1, !.j = st.j + 1]
    ELSE [st EXCEPT !.pc = "tail"]

\* One test of the merge loop's condition and, when it holds, one iteration.
DiffIter(st) ==
    IF st.i <= Len(st.a) /\ st.j <= Len(st.b)
    THEN IF StrLess(st.a[st.i], st.b[st.j])
         THEN [st EXCEPT !.i = st.i + 1]
         ELSE IF StrLess(st.b[st.j], st.a[st.i])
         THEN [st EXCEPT !.d = Append(st.d, st.b[st.j]), !.j = st.j + 1]
         ELSE [st EXCEPT !.i = st.i + 1, !.j = st.j + 1]
    ELSE [st EXCEPT !.pc = "tail"]

\* The second loop: the rest of b is copied, and diff[:k] returned.
DiffTail(st) ==
    [st EXCEPT !.d = st.d \o SubSeq(st.b, st.j, Len(st.b)),
               !.j = Len(st.b) + 1, !.pc = "done"]

RECURSIVE DiffRun(_)
DiffRun(st) ==
    IF st.pc = "merge" THEN DiffRun(DiffIter(st))
    ELSE IF st.pc = "tail" THEN DiffRun(DiffTail(st))
    ELSE st

diff(a, b) == DiffRun(DiffStart(a, b)).d

\* A file: whether it exists, and its content.
Absent == [exists |-> FALSE, data |-> <<>>]

File(data) == [exists |-> TRUE, data |-> data]

\* The loop of saveIds over a bufio.Writer: an identifier with a newline ends
\* it with an error before anything was flushed (the identifiers of the model
\* stay far below the writer's 4096-byte buffer); otherwise each identifier
\* is written followed by "\n".
RECURSIVE SaveLoop(_, _)
SaveLoop(ids, buf) ==
    IF ids = <<>> THEN [err |-> FALSE, data |-> buf]
    ELSE IF ContainsNewline(Head(ids)) THEN [err |-> TRUE, data |-> <<>>]
    ELSE SaveLoop(Tail(ids), buf \o Head(ids) \o <<Newline>>)

\* saveIds(&ids, filename): os.Create makes or truncates the file, then the
\* loop, then w.Flush().  The file left behind, and whether an error returns.
saveIds(ids) ==
    LET r == SaveLoop(ids, <<>>) IN [file |-> File(r.data), err |-> r.err]

\* bufio.ScanLines: a line ends at "\n"; one trailing "\r" is dropped; a last
\* line without "\n" counts when it is not empty.
DropCR(line) ==
    IF line # <<>> /\ line[Len(line)] = CarriageReturn
    THEN SubSeq(line, 1, Len(line) - 1)
    ELSE line

RECURSIVE ScanLines(_)
ScanLines(data) ==
    IF data = <<>> THEN <<>>
    ELSE IF \E k \in 1..Len(data) : data[k] = Newline
    THEN LET k == CHOOSE n \in 1..Len(data) :
                    data[n] = Newline /\ \A m \in 1..(n - 1) : data[m] # Newline
         IN <<DropCR(SubSeq(data, 1, k - 1))>> \o ScanLines(SubSeq(data, k + 1, Len(data)))
    ELSE <<DropCR(data)>>

\* loadIds with the os.Stat test left out: opening the missing file fails.
loadIdsNoStat(file) ==
    IF ~file.exists THEN [ids |-> <<>>, err |-> TRUE]
    ELSE [ids |-> ScanLines(file.data), err |-> FALSE]

\* loadIds(filename): a missing file is (nil, nil); otherwise its lines.
loadIds(file) ==
    IF ~file.exists THEN [ids |-> <<>>, err |-> FALSE]
    ELSE [ids |-> ScanLines(file.data), err |-> FALSE]

\* genIndex(idsCur, idsArchive): os.Create, then one JSON member per current
\* identifier; the content is kept as the list of its keys.
genIndex(idsCur) == File(idsCur)

(***************************************************************************)
(* The catalog part of main (lines 448-476 of src/README.md)               *)
(***************************************************************************)
\* Identifiers the listing page may carry as option values: "9", "10",
\* "9\r" and "1\n0".
Id9 == <<57>>

Id10 == <<49, 48>>

Id9CR == <<57, CarriageReturn>>

Id1NL0 == <<49, Newline, 48>>

CatalogIds == {Id9, Id10, Id9CR, Id1NL0}

\* The longest option list of the listing page, and the number of process
\* runs followed.
MaxFresh == 3

MaxRuns == 3

\* Upstream behaviours of the one fetch of a step: an immediate document, a
\* document after retries, a refused request, an unparsable body, and ten
\* network errors in a row.
FetchScripts ==
    { <<Resp(StatusOK, TRUE)>>,
      <<NetErr, Resp(StatusOverloaded, FALSE), Resp(StatusOK, TRUE)>>,
      <<Resp(404, FALSE)>>,
      <<Resp(StatusOK, FALSE)>>,
      [k \in 1..httpMaxRetries |-> NetErr] }

\* What the caller of getHttpDoc gets: "doc", "nil", or "panic" when
\* goquery.NewDocumentFromResponse failed inside the call.
FetchResult(script) ==
    LET h == getHttpDoc(script) IN IF h.pc = "panicked" THEN "panic" ELSE h.doc

\* A fresh process at the top of main; disk0 remembers the files it found.
CatStart(runs, dk) ==
    [pc |-> "start", runs |-> runs, fetch |-> "pending", fetched |-> <<>>,
     idsCur |-> <<>>, idsAll |-> <<>>, idsArchive |-> <<>>,
     loaded |-> <<>>, loadErr |-> FALSE, disk0 |-> dk]

\* Lines 448-458: fetchIds (whose doc.Find dereferences a nil document),
\* unique.Sort, loadIds, append, unique.Sort, diff.
Reconcile(c, res, raw, dk) ==
    IF res # "doc"
    THEN [c EXCEPT !.pc = "panicked", !.fetch = res]
    ELSE LET cur == UniqueSort(raw)
             ld  == loadIds(dk.all)
             all == UniqueSort(ld.ids \o cur)
         IN IF ld.err
            THEN [c EXCEPT !.pc = "fatal", !.fetch = res, !.fetched = raw,
                           !.idsCur = cur, !.loadErr = TRUE]
            ELSE [c EXCEPT !.pc = "saveCur", !.fetch = res, !.fetched = raw,
                           !.idsCur = cur, !.loaded = ld.ids, !.idsAll = all,
                           !.idsArchive = diff(cur, all)]

\* The files of the catalog under berlin/, none existing: the three lists,
\* the index, and the names <file>.old next to them.
DiskIdle ==
    [cur |-> Absent, archive |-> Absent, all |-> Absent, index |-> Absent,
     curOld |-> Absent, archiveOld |-> Absent, allOld |-> Absent, indexOld |-> Absent]

CatIdle == CatStart(0, DiskIdle)

DiffIdle == [DiffStart(<<>>, <<>>) EXCEPT !.pc = "idle"]

(***************************************************************************)
(* The generation loops of main (lines 478-516): getMetadata, getMeals,    *)
(* getDay                                                                  *)
(***************************************************************************)
\* getMeals(id, -1, 21)
daysBefore == -1

daysAfter == 21

\* What the facility page carries for the name: the selected option's text,
\* else a direct link, else an iframe whose src holds mensa=<digits> or does
\* not, else nothing.
PageShapes == {"name", "directlink", "iframe", "iframeNoMatch", "none"}

\* getMetadata(id), as far as its fetches decide how it ends: res is the
\* result of the fetch of the facility page, res2 of the second fetch the
\* name fallbacks make.  "ok": a *Canteen is returned; "panic": the process
\* dies (a nil document is dereferenced by doc.Find, or the fetch panicked).
\*   line 102   doc.Find on the first document
\*   line 141   directlink: doc2 is tested against nil before use
\*   line 116   iframe: doc2 is used at line 127 when mensa= matched
getMetadata(res, page, res2) ==
    IF res # "doc" THEN "panic"
    ELSE IF page = "directlink" THEN (IF res2 = "panic" THEN "panic" ELSE "ok")
    ELSE IF page = "iframe" THEN (IF res2 = "doc" THEN "ok" ELSE "panic")
    ELSE IF page = "iframeNoMatch" THEN (IF res2 = "panic" THEN "panic" ELSE "ok")
    ELSE "ok"

\* Whether getMetadata makes its second fetch.
SecondFetch(res, page) == res = "doc" /\ page \in {"directlink", "iframe", "iframeNoMatch"}

\* getDay(id, date), as far as its fetch decides how it ends: doc.Find at
\* line 236 dereferences the document.
getDay(res) == IF res = "doc" THEN "ok" ELSE "panic"

\* The top of the metadata loop with the identifiers the catalog part left.
\*   pc       "metadata", "feed", "done" or "panicked"
\*   k        the loop's position in idsCur
\*   i        getMeals' day offset, days the offsets of c.Days so far
\*   created  the files os.Create has made or truncated
\*   written  the files a Canteen was written to
\*   fetches  the results of the getHttpDoc calls so far, with their target
GenStart(ids) ==
    [pc |-> IF ids = <<>> THEN "done" ELSE "metadata", idsCur |-> ids, k |-> 1,
     i |-> daysBefore, days |-> <<>>, created |-> {}, written |-> {},
     fetches |-> <<>>]

GenIdle == [GenStart(<<>>) EXCEPT !.pc = "idle"]

MetadataFile(id) == <<id, "metadata.xml">>

FullFile(id) == <<id, "full.xml">>

\* The metadata loop going on to the days of its identifier after each
\* metadata file.
MetadataIterThenFeed(g, res, page, res2) ==
    LET id   == g.idsCur[g.k]
        end  == getMetadata(res, page, res2)
        log  == <<[what |-> "meta", id |-> id, off |-> 0, res |-> res]>> \o
                (IF SecondFetch(res, page)
                 THEN <<[what |-> "name", id |-> id, off |-> 0, res |-> res2]>>
                 ELSE <<>>)
        made == [g EXCEPT !.created = g.created \cup {MetadataFile(id)},
                          !.fetches = g.fetches \o log]
    IN IF end = "panic"
       THEN [made EXCEPT !.pc = "panicked"]
       ELSE [made EXCEPT !.written = g.written \cup {MetadataFile(id)}, !.pc = "feed"]

\* One iteration of the metadata loop (lines 479-495).
MetadataIter(g, res, page, res2) ==
    LET id   == g.idsCur[g.k]
        end  == getMetadata(res, page, res2)
        log  == <<[what |-> "meta", id |-> id, off |-> 0, res |-> res]>> \o
                (IF SecondFetch(res, page)
                 THEN <<[what |-> "name", id |-> id, off |-> 0, res |-> res2]>>
                 ELSE <<>>)
        made == [g EXCEPT !.created = g.created \cup {MetadataFile(id)},
                          !.fetches = g.fetches \o log]
    IN IF end = "panic"
       THEN [made EXCEPT !.pc = "panicked"]
       ELSE [made EXCEPT !.written = g.written \cup {MetadataFile(id)},
                         !.k = IF g.k = Len(g.idsCur) THEN 1 ELSE g.k + 1,
                         !.pc = IF g.k = Len(g.idsCur) THEN "feed" ELSE "metadata"]

\* One iteration of getMeals' loop for identifier idsCur[k] (lines 324-327);
\* the first one follows os.Create of full.xml (lines 499-511), the last one
\* is followed by Write and the next identifier (lines 513-516).
DayIter(g, res) ==
    LET id   == g.idsCur[g.k]
        made == [g EXCEPT !.created = g.created \cup {FullFile(id)},
                          !.fetches = Append(g.fetches,
                              [what |-> "day", id |-> id, off |-> g.i, res |-> res])]
    IN IF getDay(res) = "panic"
       THEN [made EXCEPT !.pc = "panicked"]
       ELSE IF g.i < daysAfter
       THEN [made EXCEPT !.i = g.i + 1, !.days = Append(g.days, g.i)]
       ELSE [made EXCEPT !.written = g.written \cup {FullFile(id)},
                         !.i = daysBefore, !.days = <<>>,
                         !.k = g.k + 1,
                         !.pc = IF g.k = Len(g.idsCur) THEN "done" ELSE "feed"]

(***************************************************************************)
(* The XML serializer (src/xml.go)                                         *)
(***************************************************************************)
\* Tokens of the encoder's output.
Start(name, attr) == [t |-> "start", name |-> name, attr |-> attr]

End(name) == [t |-> "end", name |-> name, attr |-> ""]

Elem(name, text) == [t |-> "elem", name |-> name, attr |-> text]

RECURSIVE Concat(_)
Concat(ss) == IF ss = <<>> THEN <<>> ELSE Head(ss) \o Concat(Tail(ss))

\* encoding/xml on a Price and on a Meal (struct tags, xml.go lines 39-51).
MarshalPrice(p) == <<Start("price", p.Role), Elem("chardata", p.Price), End("price")>>

MarshalMeal(m) ==
    <<Start("meal", ""), Elem("name", m.Name)>>
        \o [k \in 1..Len(m.Notes) |-> Elem("note", m.Notes[k])]
        \o Concat([k \in 1..Len(m.Prices) |-> MarshalPrice(m.Prices[k])])
        \o <<End("meal")>>

MarshalMeals(meals) == Concat([k \in 1..Len(meals) |-> MarshalMeal(meals[k])])

\* func (c *Category) MarshalXML: nothing for a Category without Meals.
CategoryMarshalXML(c) ==
    IF Len(c.Meals) = 0 THEN <<>>
    ELSE <<Start("category", c.Name)>> \o MarshalMeals(c.Meals) \o <<End("category")>>

\* encoding/xml on a Category by its struct tags (xml.go lines 53-57): the
\* element, its name attribute, its Meals.
CategoryByTags(c) ==
    <<Start("category", c.Name)>> \o MarshalMeals(c.Meals) \o <<End("category")>>

\* Encoder.Encode / marshalValue on a Category: MarshalXML has a pointer
\* receiver, so encoding/xml calls it only for an addressable value (a field
\* or slice element reached through a pointer); a Category passed by value
\* is marshalled by its struct tags.
EncodeCategory(c, addressable) ==
    IF addressable THEN CategoryMarshalXML(c) ELSE CategoryByTags(c)

DayClosed(d) == \A k \in 1..Len(d.Categories) : Len(d.Categories[k].Meals) = 0

\* Day.MarshalXML without its closed branch.
DayMarshalXMLNoClosed(d) ==
    <<Start("day", d.Date)>>
        \o Concat([k \in 1..Len(d.Categories) |->
                      EncodeCategory(d.Categories[k], FALSE)])
        \o <<End("day")>>

\* func (d *Day) MarshalXML.  Its loop `for _, c := range d.Categories`
\* hands e.Encode the copy c, a Category value that is not addressable.
DayMarshalXML(d) ==
    <<Start("day", d.Date)>>
        \o (IF DayClosed(d)
            THEN <<Elem("closed", "")>>
            ELSE Concat([k \in 1..Len(d.Categories) |->
                            EncodeCategory(d.Categories[k], FALSE)]))
        \o <<End("day")>>

\* An element with one attribute and no content.
ElemAttr(name, key, value) == [t |-> "elemattr", name |-> name, attr |-> <<key, value>>]

\* The [7]string of Times.MarshalXML.
Weekdays == <<"monday", "tuesday", "wednesday", "thursday", "friday", "saturday", "sunday">>

\* A *Times field: nil, or a Times with its openingHours.
NilTimes == [nil |-> TRUE, openingHours |-> <<>>]

TimesOf(oh) == [nil |-> FALSE, openingHours |-> oh]

\* Times.MarshalXML that writes however many slots there are.
TimesMarshalXMLAnyLength(times) ==
    [panic |-> FALSE,
     out |-> <<Start("times", "opening")>>
                \o [i \in 1..Len(times.openingHours) |->
                       IF times.openingHours[i] = ""
                       THEN ElemAttr(Weekdays[((i - 1) % 7) + 1], "closed", "true")
                       ELSE ElemAttr(Weekdays[((i - 1) % 7) + 1], "open", times.openingHours[i])]
                \o <<End("times")>>]

\* func (times Times) MarshalXML: an empty element for no slots, a panic for
\* a length other than 7, else the seven weekday elements.
TimesMarshalXML(times) ==
    IF Len(times.openingHours) = 0
    THEN [panic |-> FALSE, out |-> <<Elem("times", "")>>]
    ELSE IF Len(times.openingHours) # Len(Weekdays)
    THEN [panic |-> TRUE, out |-> <<>>]
    ELSE [panic |-> FALSE,
          out |-> <<Start("times", "opening")>>
                     \o [i \in 1..Len(Weekdays) |->
                            IF times.openingHours[i] = ""
                            THEN ElemAttr(Weekdays[i], "closed", "true")
                            ELSE ElemAttr(Weekdays[i], "open", times.openingHours[i])]
                     \o <<End("times")>>]

\* encoding/xml on the field Times *Times: nothing for nil (the pointer is
\* followed before the marshaller is looked up), else Times.MarshalXML.
EncodeTimes(times) ==
    IF times.nil THEN [panic |-> FALSE, out |-> <<>>] ELSE TimesMarshalXML(times)

\* A Write before its first byte.
\*   pc   "header", "times", "days", "footer", "done" or "panicked"
\*   d    the next element of c.Days
\*   out  the tokens written so far
WriteStart(c) == [pc |-> "header", c |-> c, d |-> 1, out |-> <<>>]

EncIdle == [WriteStart([Days |-> <<>>, Times |-> NilTimes]) EXCEPT !.pc = "idle"]

(***************************************************************************)
(* getDay on one meal block (lines 250-307): the prices                    *)
(***************************************************************************)
Comma == 44

Dot == 46

Space == 32

Slash == 47

\* unicode.IsSpace on the bytes used here.
WhiteSpace == {9, 10, 11, 12, 13, 32}

RECURSIVE TrimLeft(_)
TrimLeft(s) == IF s # <<>> /\ Head(s) \in WhiteSpace THEN TrimLeft(Tail(s)) ELSE s

RECURSIVE TrimRight(_)
TrimRight(s) ==
    IF s # <<>> /\ s[Len(s)] \in WhiteSpace THEN TrimRight(SubSeq(s, 1, Len(s) - 1)) ELSE s

\* strings.TrimSpace
TrimSpace(s) == TrimRight(TrimLeft(s))

\* The end of the run of digits that starts at p.
RECURSIVE DigitRunEnd(_, _)
DigitRunEnd(s, p) == IF p <= Len(s) /\ s[p] \in Digits THEN DigitRunEnd(s, p + 1) ELSE p

\* The regular expression \d+,\d{2} tried at position p: the position after
\* the match, or 0.  \d+ takes the whole run of digits; giving a digit back
\* cannot help, since a comma must follow.
MatchPriceAt(s, p) ==
    IF p <= Len(s) /\ s[p] \in Digits
    THEN LET q == DigitRunEnd(s, p)
         IN IF q + 2 <= Len(s) /\ s[q] = Comma /\ s[q + 1] \in Digits /\ s[q + 2] \in Digits
            THEN q + 3 ELSE 0
    ELSE 0

\* re.FindAllString(prices, -1) from position p on: the leftmost matches,
\* none overlapping another.
RECURSIVE FindAllPrices(_, _)
FindAllPrices(s, p) ==
    IF p > Len(s) THEN <<>>
    ELSE LET e == MatchPriceAt(s, p)
         IN IF e > 0 THEN <<SubSeq(s, p, e - 1)>> \o FindAllPrices(s, e)
            ELSE FindAllPrices(s, p + 1)

\* strings.Replace(s, old, new, 1) for single bytes.
RECURSIVE ReplaceFirst(_, _, _)
ReplaceFirst(s, old, new) ==
    IF s = <<>> THEN <<>>
    ELSE IF Head(s) = old THEN <<new>> \o Tail(s)
    ELSE <<Head(s)>> \o ReplaceFirst(Tail(s), old, new)

pricesRoles == <<"student", "employee", "other">>

\* The switch with a case for two matches as well.
MealPricesWithTwo(region) ==
    LET m == FindAllPrices(TrimSpace(region), 1)
    IN IF Len(m) = 0 THEN [prices |-> <<>>, logs |-> 0]
       ELSE IF Len(m) = 1
       THEN [prices |-> <<[Price |-> ReplaceFirst(m[1], Comma, Dot), Role |-> "other"]>>,
             logs |-> 0]
       ELSE IF Len(m) \in {2, 3}
       THEN [prices |-> [j \in 1..Len(m) |->
                            [Price |-> ReplaceFirst(m[j], Comma, Dot), Role |-> pricesRoles[j]]],
             logs |-> 0]
       ELSE [prices |-> <<>>, logs |-> 1]

\* The prices of one meal (lines 258-283): meal.Prices and the number of
\* lines logged.
MealPrices(region) ==
    LET m == FindAllPrices(TrimSpace(region), 1)
    IN IF Len(m) = 0 THEN [prices |-> <<>>, logs |-> 0]
       ELSE IF Len(m) = 1
       THEN [prices |-> <<[Price |-> ReplaceFirst(m[1], Comma, Dot), Role |-> "other"]>>,
             logs |-> 0]
       ELSE IF Len(m) = 3
       THEN [prices |-> [j \in 1..Len(m) |->
                            [Price |-> ReplaceFirst(m[j], Comma, Dot), Role |-> pricesRoles[j]]],
             logs |-> 0]
       ELSE [prices |-> <<>>, logs |-> 1]

\* A meal block before it is read.
MealStart(region) == [pc |-> "block", region |-> region, prices |-> <<>>, logs |-> 0]

(***************************************************************************)
(* getMeals (lines 320-330) and the dates of package time                  *)
(***************************************************************************)
\* time.isLeap
IsLeap(y) == y % 4 = 0 /\ (y % 100 # 0 \/ y % 400 = 0)

\* time.daysBefore: the days of a non-leap year before each month.
DaysBeforeMonth == <<0, 31, 59, 90, 120, 151, 181, 212, 243, 273, 304, 334, 365>>

\* The days before January 1 of year y, counted from year 1.
DaysSinceEpoch(y) ==
    365 * (y - 1) + ((y - 1) \div 4) - ((y - 1) \div 100) + ((y - 1) \div 400)

\* time.Date(y, m, d, ...) as a day number; d may lie outside the month
\* (AddDate hands over day + i unnormalised).
AbsDay(y, m, d) ==
    DaysSinceEpoch(y) + DaysBeforeMonth[m] + (IF IsLeap(y) /\ m >= 3 THEN 1 ELSE 0) + d - 1

\* time.absDate: the year and the day within it, by cycles of 400, 100, 4
\* and 1 years.
AbsYear(abs) ==
    LET n400 == abs \div 146097
        d1   == abs - 146097 * n400
        c    == d1 \div 36524
        n100 == IF c = 4 THEN 3 ELSE c
        d2   == d1 - 36524 * n100
        n4   == d2 \div 1461
        d3   == d2 - 1461 * n4
        q    == d3 \div 365
        n1   == IF q = 4 THEN 3 ELSE q
    IN [year |-> 400 * n400 + 100 * n100 + 4 * n4 + n1 + 1, yday |-> d3 - 365 * n1]

\* time.absDate: month and day from the day of the year.
AbsDate(abs) ==
    LET yy    == AbsYear(abs)
        leap  == IsLeap(yy.year)
        feb29 == leap /\ yy.yday = 31 + 29 - 1
        day   == IF leap /\ yy.yday > 31 + 29 - 1 THEN yy.yday - 1 ELSE yy.yday
        m0    == day \div 31
        end   == DaysBeforeMonth[m0 + 2]
        month == IF day >= end THEN m0 + 2 ELSE m0 + 1
        begin == IF day >= end THEN end ELSE DaysBeforeMonth[m0 + 1]
    IN IF feb29 THEN <<yy.year, 2, 29>> ELSE <<yy.year, month, day - begin + 1>>

\* The date of now itself, whatever the offset.
AddDateFormatToday(now, i) == AbsDate(AbsDay(now[1], now[2], now[3]))

\* now.AddDate(0, 0, i).Format("2006-01-02"): year, month and day.
AddDateFormat(now, i) == AbsDate(AbsDay(now[1], now[2], now[3] + i))

\* getMeals(id, daysBefore, daysAfter) before its loop.
MealsStart(now, db, da) ==
    [pc |-> IF db <= da THEN "loop" ELSE "returned", now |-> now,
     daysBefore |-> db, daysAfter |-> da, i |-> db, Days |-> <<>>]

\* One iteration of the loop: the date of offset i, getDay's fetch, append.
MealsIter(f, res) ==
    IF getDay(res) = "panic" THEN [f EXCEPT !.pc = "panicked"]
    ELSE [f EXCEPT !.Days = Append(f.Days, [Date |-> AddDateFormat(f.now, f.i), off |-> f.i]),
                   !.i = f.i + 1,
                   !.pc = IF f.i + 1 <= f.daysAfter THEN "loop" ELSE "returned"]

(***************************************************************************)
(* getMetadata after its first fetch (lines 102-230): the opening hours    *)
(***************************************************************************)
\* "studierendenWERK BERLIN - "
TitlePrefix ==
    <<115, 116, 117, 100, 105, 101, 114, 101, 110, 100, 101, 110, 87, 69, 82, 75, 32,
      66, 69, 82, 76, 73, 78, 32, 45, 32>>

Quote == 34

Backslash == 92

\* json.Decoder.Decode into a string, of the text "[^"]*" the expression
\* captured: the text between the quotes, with \n for a line feed; an escape
\* JSON does not know is an error.
RECURSIVE JsonUnescape(_)
JsonUnescape(s) ==
    IF s = <<>> THEN [err |-> FALSE, str |-> <<>>]
    ELSE IF Head(s) # Backslash
    THEN LET r == JsonUnescape(Tail(s)) IN [err |-> r.err, str |-> <<Head(s)>> \o r.str]
    ELSE IF Len(s) >= 2 /\ s[2] = 110
    THEN LET r == JsonUnescape(SubSeq(s, 3, Len(s))) IN [err |-> r.err, str |-> <<10>> \o r.str]
    ELSE [err |-> TRUE, str |-> <<>>]

JsonDecode(text) == JsonUnescape(SubSeq(text, 2, Len(text) - 1))

\* The name of the facility (lines 102-150), doc being the facility page.
\*   end   "ok", "panic" (a run-time panic) or "fatal" (log.Fatal)
\*   logs  the lines logged
NameChain(page) ==
    LET name == TrimSpace(page.selected)
    IN IF name # <<>> THEN [end |-> "ok", name |-> name, logs |-> 0]
       ELSE IF page.directLink
       THEN \* doc2 := getHttpDoc(directLink, nil)
            IF page.res2 = "panic" THEN [end |-> "panic", name |-> <<>>, logs |-> 0]
            ELSE IF page.res2 = "nil" THEN [end |-> "ok", name |-> <<>>, logs |-> 1]
            ELSE IF Len(page.title) < Len(TitlePrefix)
            THEN \* name[len("studierendenWERK BERLIN - "):] out of range
                 [end |-> "panic", name |-> <<>>, logs |-> 0]
            ELSE [end |-> "ok",
                  name |-> SubSeq(page.title, Len(TitlePrefix) + 1, Len(page.title)),
                  logs |-> 1]
       ELSE IF page.iframe = "none" THEN [end |-> "ok", name |-> <<>>, logs |-> 1]
       ELSE \* doc2 := getHttpDoc(iframe, nil)
            IF page.res2 = "panic" THEN [end |-> "panic", name |-> <<>>, logs |-> 0]
            ELSE IF page.iframe = "nomatch" THEN [end |-> "ok", name |-> <<>>, logs |-> 1]
            ELSE IF page.res2 = "nil"
            THEN \* doc2.Find("script") on the nil document
                 [end |-> "panic", name |-> <<>>, logs |-> 0]
            ELSE IF page.entry = <<>> THEN [end |-> "ok", name |-> <<>>, logs |-> 1]
            ELSE LET dec == JsonDecode(page.entry)
                 IN IF dec.err THEN [end |-> "fatal", name |-> <<>>, logs |-> 1]
                    ELSE [end |-> "ok", name |-> TrimSpace(dec.str), logs |-> 1]

\* days := []string{"Mo", "Di", "Mi", "Do", "Fr", "Sa", "So"}
days == <<"Mo", "Di", "Mi", "Do", "Fr", "Sa", "So">>

\* The loops `for j, day := range days { if m[..] == day { .. = j; break } }`:
\* the 0-based position of the token, and 0, the zero value of the int, for
\* a token the expression [DFMS][aior] matches that is no weekday.
DayIndex(tok) ==
    IF \E j \in 1..Len(days) : days[j] = tok
    THEN (CHOOSE j \in 1..Len(days) : days[j] = tok) - 1
    ELSE 0

Hyphen == 45

\* strings.Join(parts, "-")
RECURSIVE JoinHyphen(_)
JoinHyphen(parts) ==
    IF parts = <<>> THEN <<>>
    ELSE IF Len(parts) = 1 THEN parts[1]
    ELSE parts[1] \o <<Hyphen>> \o JoinHyphen(Tail(parts))

\* re.SubexpIndex("hoursStart"), 1-based in the sequence of the submatches
\* <<whole, dayStart, dayEnd, hoursStart, hoursEnd>>.
SubexpHoursStart == 4

\* The submatches of a block the expression matches.
Submatches(blk) == <<blk.text, blk.dayStart, blk.dayEnd, blk.hoursStart, blk.hoursEnd>>

\* The loop `for j := dayStart; j <= dayEnd; j++` started at Monday.
FillSlotsFromMonday(oh, s, e, v) ==
    [j \in 1..Len(oh) |-> IF j - 1 <= e THEN v ELSE oh[j]]

\* for j := dayStart; j <= dayEnd; j++ { openingHours[j] = v }
FillSlots(oh, s, e, v) ==
    [j \in 1..Len(oh) |-> IF s <= j - 1 /\ j - 1 <= e THEN v ELSE oh[j]]

\* No test of the range at all.
RangeCheckNone(s, e) == "ok"

\* if dayEnd < dayStart { panic("dayEnd < dayStart") }
RangeCheck(s, e) == IF e < s THEN "panic" ELSE "ok"

\* make([]string, 7)
NoHours == [j \in 1..Len(days) |-> <<>>]

\* getMetadata with the facility page in hand.
\*   pc        "name", "hours", "returned", "panicked" or "fatal"
\*   died      the part of getMetadata that ended the process, if one did
\*   canteen   the Canteen returned, if one was
MetaStart(page, blocks) ==
    [pc |-> "name", page |-> page, blocks |-> blocks, name |-> <<>>, logs |-> 0,
     i |-> 0, openingHours |-> NoHours, died |-> "", canteen |-> "none"]

\* Lines 102-150.
NameStep(m) ==
    LET r == NameChain(m.page)
    IN IF r.end = "ok"
       THEN [m EXCEPT !.pc = "hours", !.name = r.name, !.logs = r.logs]
       ELSE [m EXCEPT !.pc = IF r.end = "panic" THEN "panicked" ELSE "fatal",
                      !.logs = r.logs, !.died = "name"]

\* One pass of the loop over the opening-hours blocks (lines 180-212), m the
\* state of getMetadata, blocks the siblings after the clock icon; past the
\* last sibling the selection is empty and nothing matches.
OpeningStep(m) ==
    IF m.i >= Len(days) \/ m.i + 1 > Len(m.blocks) \/ ~m.blocks[m.i + 1].match
    THEN [m EXCEPT !.pc = "returned",
                   !.canteen = [Name |-> m.name, Times |-> m.openingHours]]
    ELSE LET blk      == m.blocks[m.i + 1]
             sub      == Submatches(blk)
             dayStart == DayIndex(sub[2])
             dayEnd   == IF sub[3] = "" THEN dayStart ELSE DayIndex(sub[3])
         IN IF RangeCheck(dayStart, dayEnd) = "panic"
            THEN [m EXCEPT !.pc = "panicked", !.died = "hours"]
            ELSE [m EXCEPT !.openingHours =
                               FillSlots(m.openingHours, dayStart, dayEnd,
                                         JoinHyphen(SubSeq(sub, SubexpHoursStart, Len(sub)))),
                           !.i = m.i + 1]

(***************************************************************************)
(* fetchIDs' safe names (src/unnamed/part_000, lines 66-108)               *)
(***************************************************************************)
LowerLetters == 97..122

UpperLetters == 65..90

Underscore == 95

\* The code points of ä, ö, ü, ß, é.
RuneAe == 228

RuneOe == 246

RuneUe == 252

RuneSz == 223

RuneEAcute == 233

\* One byte for every code point, as if len(name) counted characters.
Utf8LenOne(c) == 1

\* The bytes of a code point in UTF-8 (len(name) counts them).
Utf8Len(c) == IF c < 128 THEN 1 ELSE IF c < 2048 THEN 2 ELSE IF c < 65536 THEN 3 ELSE 4

RECURSIVE ByteLen(_)
ByteLen(name) == IF name = <<>> THEN 0 ELSE Utf8Len(Head(name)) + ByteLen(Tail(name))

\* The body of `for _, c := range name` (lines 70-102): safe is safeName[:j].
SafeNameRune(safe, c) ==
    IF c \in LowerLetters \/ c \in Digits THEN Append(safe, c)
    ELSE IF c \in UpperLetters THEN Append(safe, c + (97 - 65))
    ELSE IF c = RuneAe THEN safe \o <<97, 101>>
    ELSE IF c = RuneOe THEN safe \o <<111, 101>>
    ELSE IF c = RuneUe THEN safe \o <<117, 101>>
    ELSE IF c = RuneSz THEN safe \o <<115, 115>>
    ELSE IF c = RuneEAcute THEN Append(safe, 101)
    ELSE IF Len(safe) > 0 /\ safe[Len(safe)] # Underscore THEN Append(safe, Underscore)
    ELSE safe

\* if j > 0 && safeName[j-1] == '_' { j-- }
StripUnderscore(safe) ==
    IF Len(safe) > 0 /\ safe[Len(safe)] = Underscore THEN SubSeq(safe, 1, Len(safe) - 1)
    ELSE safe

\* One option of the list: name its text as code points.
\*   pc     "loop", "done" or "panicked" (an index past the buffer)
\*   k      the next code point
\*   safe   safeName[:j]
\*   size   len(safeName) = len(name) in bytes
SafeStart(name) ==
    [pc |-> "loop", name |-> name, k |-> 1, safe |-> <<>>, size |-> ByteLen(name),
     out |-> <<>>]

SafeStep(s) ==
    IF s.k > Len(s.name)
    THEN [s EXCEPT !.pc = "done", !.out = StripUnderscore(s.safe)]
    ELSE LET next == SafeNameRune(s.safe, s.name[s.k])
         IN IF Len(next) > s.size THEN [s EXCEPT !.pc = "panicked"]
            ELSE [s EXCEPT !.safe = next, !.k = s.k + 1]

(***************************************************************************)
(* The run with -u (src/unnamed/part_000, lines 298-345 and 361-369)       *)
(***************************************************************************)
\* json.Encoder.Encode of a map: an object, the keys in sorted order; the
\* model keeps the set of its members.
JsonObject(pairs) == [exists |-> TRUE, data |-> pairs]

\* index[name] = urlFeedBase + name + "/metadata.xml"
IndexOf(ids) == {<<p[2], <<"urlFeedBase", p[2], "/metadata.xml">>>> : p \in ids}

\* The files berlin/ids.json, berlin/index.json and their .old names.
BackupStart(runs, fs) == [pc |-> "fetchIDs", runs |-> runs, ids |-> {}, fs |-> fs, fs0 |-> fs]

NoJsonFiles == [ids |-> Absent, idsOld |-> Absent, index |-> Absent, indexOld |-> Absent]

\* updateIDs: the file is renamed to .old when os.Stat finds it, then
\* created and written.
updateIDs(fs, ids) ==
    LET kept == IF fs.ids.exists THEN [fs EXCEPT !.idsOld = fs.ids, !.ids = Absent] ELSE fs
    IN [kept EXCEPT !.ids = JsonObject(ids)]

\* updateIndex: the same for the index.
updateIndex(fs, ids) ==
    LET kept == IF fs.index.exists THEN [fs EXCEPT !.indexOld = fs.index, !.index = Absent]
                ELSE fs
    IN [kept EXCEPT !.index = JsonObject(IndexOf(ids))]

(***************************************************************************)
(* getDay on one menu page (lines 232-318): the scan of the blocks         *)
(***************************************************************************)
\* "Kein Speisenangebot", the text of the test before the scan (line 237).
NoOfferPage == <<75, 101, 105, 110, 32, 83, 112, 101, 105, 115, 101, 110, 97, 110, 103, 101, 98, 111, 116>>

\* "Kein Speiseangebot", the text of the test inside the scan (line 243).
NoOfferBlock == <<75, 101, 105, 110, 32, 83, 112, 101, 105, 115, 101, 97, 110, 103, 101, 98, 111, 116>>

\* The test before the scan: one block, no div in it, the text.  A block is
\* a div.splGroupWrapper: whether it holds a div at all, the text of its br
\* elements, its name and the Meals of its div.splMeal elements.
PageSaysNoOffer(blocks) ==
    /\ Len(blocks) = 1
    /\ ~blocks[1].hasDiv
    /\ TrimSpace(blocks[1].caption) = NoOfferPage

\* The test inside the scan, i the 0-based index EachWithBreak passes.
BlockSaysNoOffer(i, blk) ==
    i < 1 /\ ~blk.hasDiv /\ TrimSpace(blk.caption) = NoOfferBlock

\* getDay with the page in hand.
\*   pc     "fetch", "scan", "returned" or "panicked"
\*   i      the index of the next block
\*   d      the Day
\*   logs   the lines logged
DayStart(blocks) ==
    [pc |-> "fetch", blocks |-> blocks, i |-> 0, d |-> [Categories |-> <<>>], logs |-> 0]

\* Lines 234-239: the fetch and the test before the scan.
DayOpen(y, res) ==
    IF getDay(res) = "panic" THEN [y EXCEPT !.pc = "panicked"]
    ELSE IF PageSaysNoOffer(y.blocks) \/ y.blocks = <<>> THEN [y EXCEPT !.pc = "returned"]
    ELSE [y EXCEPT !.pc = "scan"]

\* One call of the function handed to EachWithBreak (lines 240-316).
DayBlock(y) ==
    LET blk == y.blocks[y.i + 1]
    IN IF BlockSaysNoOffer(y.i, blk)
       THEN [y EXCEPT !.pc = "returned", !.logs = y.logs + 1]
       ELSE [y EXCEPT !.d = [Categories |-> Append(y.d.Categories,
                                                  [Name |-> blk.name, Meals |-> blk.meals])],
                      !.i = y.i + 1,
                      !.pc = IF y.i + 1 = Len(y.blocks) THEN "returned" ELSE "scan"]

(***************************************************************************)
(* getDay: the notes of one meal (lines 285-304)                           *)
(***************************************************************************)
\* strings.HasSuffix
HasSuffix(s, suffix) ==
    /\ Len(suffix) <= Len(s)
    /\ SubSeq(s, Len(s) - Len(suffix) + 1, Len(s)) = suffix

\* "ampel_gruen_70x65.png"
SuffixGruen == <<97, 109, 112, 101, 108, 95, 103, 114, 117, 101, 110, 95, 55, 48, 120, 54, 53, 46, 112, 110, 103>>

\* "ampel_gelb_70x65.png"
SuffixGelb == <<97, 109, 112, 101, 108, 95, 103, 101, 108, 98, 95, 55, 48, 120, 54, 53, 46, 112, 110, 103>>

\* "ampel_rot_70x65.png"
SuffixRot == <<97, 109, 112, 101, 108, 95, 114, 111, 116, 95, 55, 48, 120, 54, 53, 46, 112, 110, 103>>

\* "15.png"
Suffix15 == <<49, 53, 46, 112, 110, 103>>

\* "43.png"
Suffix43 == <<52, 51, 46, 112, 110, 103>>

\* "1.png"
Suffix1 == <<49, 46, 112, 110, 103>>

\* "18.png"
Suffix18 == <<49, 56, 46, 112, 110, 103>>

\* "38.png"
Suffix38 == <<51, 56, 46, 112, 110, 103>>

\* "5.png", a key the table does not have.
Suffix5 == <<53, 46, 112, 110, 103>>

\* The table with one more key, "5.png", which ends "15.png" too.
notesImgOverlapping ==
    (SuffixGruen :> <<103, 114, 195, 188, 110, 32, 40, 65, 109, 112, 101, 108, 41>> @@
     SuffixGelb :> <<103, 101, 108, 98, 32, 40, 65, 109, 112, 101, 108, 41>> @@
     SuffixRot :> <<114, 111, 116, 32, 40, 65, 109, 112, 101, 108, 41>> @@
     Suffix15 :> <<118, 101, 103, 97, 110>> @@
     Suffix43 :> <<75, 108, 105, 109, 97, 101, 115, 115, 101, 110>> @@
     Suffix1 :> <<118, 101, 103, 101, 116, 97, 114, 105, 115, 99, 104>> @@
     Suffix18 :> <<98, 105, 111>> @@
     Suffix38 :> <<77, 83, 67>> @@
     Suffix5 :> <<53>>)

\* notesImg: suffix of the icon's URL -> note (UTF-8 bytes of the Go string).
notesImg ==
    (SuffixGruen :> <<103, 114, 195, 188, 110, 32, 40, 65, 109, 112, 101, 108, 41>> @@
     SuffixGelb :> <<103, 101, 108, 98, 32, 40, 65, 109, 112, 101, 108, 41>> @@
     SuffixRot :> <<114, 111, 116, 32, 40, 65, 109, 112, 101, 108, 41>> @@
     Suffix15 :> <<118, 101, 103, 97, 110>> @@
     Suffix43 :> <<75, 108, 105, 109, 97, 101, 115, 115, 101, 110>> @@
     Suffix1 :> <<118, 101, 103, 101, 116, 97, 114, 105, 115, 99, 104>> @@
     Suffix18 :> <<98, 105, 111>> @@
     Suffix38 :> <<77, 83, 67>>)

\* The state at the start of the icon loop of one meal: the src attributes of
\* its img.splIcon elements and the texts of its div.kennz cells.  k is the
\* icon being read, rest the keys of the table the range has not visited yet.
NotesStart(icons, text) ==
    [pc |-> "icons", icons |-> icons, text |-> text, k |-> 1,
     rest |-> DOMAIN notesImg, notes |-> <<>>]

\* One iteration of "for suffix, note := range notesImg" over key s: a match
\* appends the note and breaks, anything else goes on with the other keys.
RangeStep(m, s) ==
    IF HasSuffix(m.icons[m.k], s)
    THEN [m EXCEPT !.notes = Append(@, notesImg[s]), !.k = @ + 1,
                   !.rest = DOMAIN notesImg]
    ELSE [m EXCEPT !.rest = @ \ {s}]

\* The range ended without a match: the icon gives no note.
RangeEnd(m) == [m EXCEPT !.k = @ + 1, !.rest = DOMAIN notesImg]

\* The notes from text, appended after those of the icons.
TextNotes(m) == [m EXCEPT !.pc = "noted", !.notes = @ \o m.text]

(***************************************************************************)
(* SpecFetch: one call of getHttpDoc, attempt by attempt                   *)
(***************************************************************************)
InitFetch ==
    /\ RestIdle({})
    /\ http = HttpStart
    /\ hist = <<>>
    /\ dl = DiffIdle
    /\ disk = DiskIdle
    /\ cat = CatIdle
    /\ gen = GenIdle
    /\ enc = EncIdle

Post ==
    /\ http.pc = "loop"
    /\ \E o \in Upstream :
        /\ http' = HttpAttempt(http, o)
        /\ hist' = Append(hist, o)
    /\ UNCHANGED <<diffVars, catVars, genVars, xmlVars, restVars>>

NextFetch == Post

SpecFetch == InitFetch /\ [][NextFetch]_vars

(***************************************************************************)
(* SpecDiff: diff(a, b) on sorted duplicate-free lists, loop by loop       *)
(***************************************************************************)
Id101 == <<49, 48, 49>>

Id102 == <<49, 48, 50>>

Id103 == <<49, 48, 51>>

DiffIds == {Id9, Id10, Id101, Id102, Id103}

SortedLists(U) == {SortSet(S) : S \in SUBSET U}

InitDiff ==
    /\ RestIdle({})
    /\ dl \in {DiffStart(a, b) : a \in SortedLists(DiffIds), b \in SortedLists(DiffIds)}
    /\ http = FetchIdle
    /\ hist = <<>>
    /\ disk = DiskIdle
    /\ cat = CatIdle
    /\ gen = GenIdle
    /\ enc = EncIdle

DiffMerge ==
    /\ dl.pc = "merge"
    /\ dl' = DiffIter(dl)
    /\ UNCHANGED <<fetchVars, catVars, genVars, xmlVars, restVars>>

DiffCopyRest ==
    /\ dl.pc = "tail"
    /\ dl' = DiffTail(dl)
    /\ UNCHANGED <<fetchVars, catVars, genVars, xmlVars, restVars>>

NextDiff == DiffMerge \/ DiffCopyRest

SpecDiff == InitDiff /\ [][NextDiff]_vars

(***************************************************************************)
(* SpecCatalog: the catalog part of main, over MaxRuns process runs        *)
(***************************************************************************)
InitCatalog ==
    /\ RestIdle({})
    /\ disk = DiskIdle
    /\ cat = CatStart(1, DiskIdle)
    /\ http = FetchIdle
    /\ hist = <<>>
    /\ dl = DiffIdle
    /\ gen = GenIdle
    /\ enc = EncIdle

FetchAndReconcile ==
    /\ cat.pc = "start"
    /\ \E script \in FetchScripts, raw \in SeqsUpTo(CatalogIds, MaxFresh) :
        cat' = Reconcile(cat, FetchResult(script), raw, disk)
    /\ UNCHANGED <<disk, fetchVars, diffVars, genVars, xmlVars, restVars>>

\* err = saveIds(&idsCur, idsCurFile); if err != nil { log.Fatal(err) }
SaveCur ==
    /\ cat.pc = "saveCur"
    /\ LET r == saveIds(cat.idsCur) IN
        /\ disk' = [disk EXCEPT !.cur = r.file]
        /\ cat' = [cat EXCEPT !.pc = IF r.err THEN "fatal" ELSE "saveArchive"]
    /\ UNCHANGED <<fetchVars, diffVars, genVars, xmlVars, restVars>>

SaveArchive ==
    /\ cat.pc = "saveArchive"
    /\ LET r == saveIds(cat.idsArchive) IN
        /\ disk' = [disk EXCEPT !.archive = r.file]
        /\ cat' = [cat EXCEPT !.pc = IF r.err THEN "fatal" ELSE "saveAll"]
    /\ UNCHANGED <<fetchVars, diffVars, genVars, xmlVars, restVars>>

SaveAll ==
    /\ cat.pc = "saveAll"
    /\ LET r == saveIds(cat.idsAll) IN
        /\ disk' = [disk EXCEPT !.all = r.file]
        /\ cat' = [cat EXCEPT !.pc = IF r.err THEN "fatal" ELSE "genIndex"]
    /\ UNCHANGED <<fetchVars, diffVars, genVars, xmlVars, restVars>>

GenIndex ==
    /\ cat.pc = "genIndex"
    /\ disk' = [disk EXCEPT !.index = genIndex(cat.idsCur)]
    /\ cat' = [cat EXCEPT !.pc = "generate"]
    /\ UNCHANGED <<fetchVars, diffVars, genVars, xmlVars, restVars>>

\* Lines 478-516 (SpecGen follows them step by step) write only below
\* berlin/<id>/ and leave the four catalog files alone; then the process ends.
GenerateFeeds ==
    /\ cat.pc = "generate"
    /\ cat' = [cat EXCEPT !.pc = "exited"]
    /\ UNCHANGED <<disk, fetchVars, diffVars, genVars, xmlVars, restVars>>

\* The next invocation of the program, on the files the last one left.
NextRun ==
    /\ cat.pc \in {"exited", "fatal", "panicked"}
    /\ cat.runs < MaxRuns
    /\ cat' = CatStart(cat.runs + 1, disk)
    /\ UNCHANGED <<disk, fetchVars, diffVars, genVars, xmlVars, restVars>>

NextCatalog ==
    \/ FetchAndReconcile
    \/ SaveCur
    \/ SaveArchive
    \/ SaveAll
    \/ GenIndex
    \/ GenerateFeeds
    \/ NextRun

SpecCatalog == InitCatalog /\ [][NextCatalog]_vars

(***************************************************************************)
(* SpecGen: the metadata loop and the full-feed loop of main               *)
(***************************************************************************)
\* idsCur as the catalog part leaves it: sorted, without duplicates, and
\* without an identifier saveIds refuses.
GenIds == {id \in CatalogIds : ~ContainsNewline(id)}

InitGen ==
    /\ RestIdle({})
    /\ gen \in {GenStart(ids) : ids \in SortedLists(GenIds)}
    /\ http = FetchIdle
    /\ hist = <<>>
    /\ dl = DiffIdle
    /\ disk = DiskIdle
    /\ cat = CatIdle
    /\ enc = EncIdle

GenMetadata ==
    /\ gen.pc = "metadata"
    /\ \E s \in FetchScripts, page \in PageShapes, s2 \in FetchScripts :
        gen' = MetadataIter(gen, FetchResult(s), page, FetchResult(s2))
    /\ UNCHANGED <<fetchVars, diffVars, catVars, xmlVars, restVars>>

GenDay ==
    /\ gen.pc = "feed"
    /\ \E s \in FetchScripts : gen' = DayIter(gen, FetchResult(s))
    /\ UNCHANGED <<fetchVars, diffVars, catVars, xmlVars, restVars>>

NextGen == GenMetadata \/ GenDay

SpecGen == InitGen /\ [][NextGen]_vars

(***************************************************************************)
(* SpecXml: Canteen.Write on canteens of a few days                        *)
(***************************************************************************)
MaxDays == 2

MaxCategories == 2

MaxMeals == 1

MealSet == {[Name |-> "N. N.", Notes |-> <<>>, Prices |-> <<>>]}

CategorySet == {[Name |-> "Essen", Meals |-> m] : m \in SeqsUpTo(MealSet, MaxMeals)}

\* The Categories a day may hold.
CategoryLists == SeqsUpTo(CategorySet, MaxCategories)

\* The Days of n days with the Categories cs: the k-th has the date of
\* offset k.
DaysOf(n, cs) == [k \in 1..n |-> [Date |-> k, Categories |-> cs[k]]]

MaxSlots == 8

SlotValues == {"", "08:00-16:00"}

\* The canteens written: the one getMeals builds (Days, no Times) and the one
\* getMetadata builds (Times, no Days), the latter with slot arrays of any
\* length.
InitXml ==
    /\ RestIdle({})
    /\ \/ \E n \in 0..MaxDays : \E cs \in [1..n -> CategoryLists] :
            enc = WriteStart([Days |-> DaysOf(n, cs), Times |-> NilTimes])
       \/ \E oh \in SeqsUpTo(SlotValues, MaxSlots) :
            enc = WriteStart([Days |-> <<>>, Times |-> TimesOf(oh)])
    /\ http = FetchIdle
    /\ hist = <<>>
    /\ dl = DiffIdle
    /\ disk = DiskIdle
    /\ cat = CatIdle
    /\ gen = GenIdle

\* io.WriteString(w, xmlHeader), and the canteen element opened by
\* enc.Encode(c).
WriteHeader ==
    /\ enc.pc = "header"
    /\ enc' = [enc EXCEPT !.out = <<Start("openmensa", "2.1"), Start("canteen", "")>>,
                          !.pc = "times"]
    /\ UNCHANGED <<fetchVars, diffVars, catVars, genVars, restVars>>

\* The encoder at the field Times.
WriteTimes ==
    /\ enc.pc = "times"
    /\ LET r == EncodeTimes(enc.c.Times)
       IN enc' = IF r.panic
                 THEN [enc EXCEPT !.pc = "panicked"]
                 ELSE [enc EXCEPT !.out = enc.out \o r.out,
                                  !.pc = IF enc.c.Days = <<>> THEN "footer" ELSE "days"]
    /\ UNCHANGED <<fetchVars, diffVars, catVars, genVars, restVars>>

\* The encoder reaches c.Days[d] through the *Canteen: an addressable Day,
\* for which it calls (*Day).MarshalXML.
WriteDay ==
    /\ enc.pc = "days"
    /\ enc' = [enc EXCEPT !.out = enc.out \o DayMarshalXML(enc.c.Days[enc.d]),
                          !.d = enc.d + 1,
                          !.pc = IF enc.d = Len(enc.c.Days) THEN "footer" ELSE "days"]
    /\ UNCHANGED <<fetchVars, diffVars, catVars, genVars, restVars>>

\* The canteen element closed, and io.WriteString(w, xmlFooter).
WriteFooter ==
    /\ enc.pc = "footer"
    /\ enc' = [enc EXCEPT !.out = enc.out \o <<End("canteen"), End("openmensa")>>,
                          !.pc = "done"]
    /\ UNCHANGED <<fetchVars, diffVars, catVars, genVars, restVars>>

NextXml == WriteHeader \/ WriteTimes \/ WriteDay \/ WriteFooter

SpecXml == InitXml /\ [][NextXml]_vars

(***************************************************************************)
(* SpecMeal: the prices of one meal block                                  *)
(***************************************************************************)
MaxChunks == 4

\* Pieces of the text of div.text-right: "1,50", "12,05/", " ", "1,5", "2".
PriceChunks ==
    {<<49, Comma, 53, 48>>, <<49, 50, Comma, 48, 53, Slash>>, <<Space>>,
     <<49, Comma, 53>>, <<50>>}

InitMeal ==
    /\ RestIdle({"ml"})
    /\ \E cs \in SeqsUpTo(PriceChunks, MaxChunks) : ml = MealStart(Concat(cs))
    /\ http = FetchIdle
    /\ hist = <<>>
    /\ dl = DiffIdle
    /\ disk = DiskIdle
    /\ cat = CatIdle
    /\ gen = GenIdle
    /\ enc = EncIdle

ReadPrices ==
    /\ ml.pc = "block"
    /\ LET r == MealPrices(ml.region)
       IN ml' = [ml EXCEPT !.pc = "done", !.prices = r.prices, !.logs = r.logs]
    /\ UNCHANGED <<fetchVars, diffVars, catVars, genVars, xmlVars, fa, md, sn, bk, dy>>

NextMeal == ReadPrices

SpecMeal == InitMeal /\ [][NextMeal]_vars

(***************************************************************************)
(* SpecMeals: getMeals over day ranges and clocks                          *)
(***************************************************************************)
MaxOffset == 2

ClockYears == {2023, 2024}

ClockDays == {1, 2, 27, 28, 29, 30, 31}

MonthLength(y, m) ==
    IF m = 2 THEN (IF IsLeap(y) THEN 29 ELSE 28)
    ELSE IF m \in {4, 6, 9, 11} THEN 30 ELSE 31

\* The dates time.Now() may show.
Clocks == {<<y, m, d>> : y \in ClockYears, m \in 1..12, d \in ClockDays} \cap
          {c \in (ClockYears \X (1..12) \X (1..31)) : c[3] <= MonthLength(c[1], c[2])}

\* The ranges: all small ones, and the one main asks for.
DayRanges ==
    ((0 - MaxOffset)..MaxOffset) \X ((0 - MaxOffset)..MaxOffset) \cup {<<daysBefore, daysAfter>>}

InitMeals ==
    /\ RestIdle({"fa"})
    /\ \E now \in Clocks, r \in DayRanges : fa = MealsStart(now, r[1], r[2])
    /\ http = FetchIdle
    /\ hist = <<>>
    /\ dl = DiffIdle
    /\ disk = DiskIdle
    /\ cat = CatIdle
    /\ gen = GenIdle
    /\ enc = EncIdle

GetMealsDay ==
    /\ fa.pc = "loop"
    /\ \E s \in FetchScripts : fa' = MealsIter(fa, FetchResult(s))
    /\ UNCHANGED <<fetchVars, diffVars, catVars, genVars, xmlVars, ml, md, sn, bk, dy>>

NextMeals == GetMealsDay

SpecMeals == InitMeals /\ [][NextMeals]_vars

(***************************************************************************)
(* SpecMetadata: getMetadata on facility pages                             *)
(***************************************************************************)
MaxBlocks == 2

\* "08:00", "16:00", "11:30"
Time0800 == <<48, 56, 58, 48, 48>>

Time1600 == <<49, 54, 58, 48, 48>>

Time1130 == <<49, 49, 58, 51, 48>>

\* Tokens the expression [DFMS][aior] matches: weekdays, and "Ma".
DayTokens == {"Mo", "Fr", "So", "Ma"}

\* The siblings after the clock icon: one the expression does not match, or
\* the submatches of one it matches.
NoMatchBlock ==
    [match |-> FALSE, text |-> "", dayStart |-> "", dayEnd |-> "",
     hoursStart |-> <<>>, hoursEnd |-> <<>>]

MatchBlocks ==
    {[match |-> TRUE, text |-> "match", dayStart |-> s, dayEnd |-> e,
      hoursStart |-> h[1], hoursEnd |-> h[2]] :
        s \in DayTokens, e \in DayTokens \cup {""},
        h \in {<<Time0800, Time1600>>, <<Time1130, Time1600>>}}

HoursBlocks == {NoMatchBlock} \cup MatchBlocks

\* " M ", the title of a facility, a title of an error page, the JSON texts
\* "M" and "\q".
SelectedNames == {<<>>, <<Space, 77, Space>>}

Titles == {<<>>, <<52, 48, 52>>, TitlePrefix, TitlePrefix \o <<77>>}

JsonEntries == {<<>>, <<Quote, 77, Quote>>, <<Quote, Backslash, 113, Quote>>}

NamedPage ==
    [selected |-> <<Space, 77, Space>>, directLink |-> FALSE, iframe |-> "none",
     res2 |-> "doc", title |-> <<>>, entry |-> <<>>]

\* Facility pages with every shape of the name, without opening hours, and
\* a page with a name and every list of opening-hours blocks.
InitMetadata ==
    /\ RestIdle({"md"})
    /\ \/ \E sel \in SelectedNames, dl0 \in BOOLEAN, ifr \in {"none", "nomatch", "match"},
            s2 \in FetchScripts, ti \in Titles, en \in JsonEntries :
            md = MetaStart([selected |-> sel, directLink |-> dl0, iframe |-> ifr,
                            res2 |-> FetchResult(s2), title |-> ti, entry |-> en], <<>>)
       \/ \E bs \in SeqsUpTo(HoursBlocks, MaxBlocks) : md = MetaStart(NamedPage, bs)
    /\ http = FetchIdle
    /\ hist = <<>>
    /\ dl = DiffIdle
    /\ disk = DiskIdle
    /\ cat = CatIdle
    /\ gen = GenIdle
    /\ enc = EncIdle

ExtractName ==
    /\ md.pc = "name"
    /\ md' = NameStep(md)
    /\ UNCHANGED <<fetchVars, diffVars, catVars, genVars, xmlVars, ml, fa, sn, bk, dy>>

OpeningBlock ==
    /\ md.pc = "hours"
    /\ md' = OpeningStep(md)
    /\ UNCHANGED <<fetchVars, diffVars, catVars, genVars, xmlVars, ml, fa, sn, bk, dy>>

NextMetadata == ExtractName \/ OpeningBlock

SpecMetadata == InitMetadata /\ [][NextMetadata]_vars

(***************************************************************************)
(* SpecSafeName: the transliteration of display names                      *)
(***************************************************************************)
MaxNameLen == 3

\* a, Z, 5, space, (, Ä, and the five letters handled by name.
NameRunes == {97, 90, 53, Space, 40, 196, RuneAe, RuneOe, RuneUe, RuneSz, RuneEAcute}

\* "Mensa Süd (Kino)"
ExampleName ==
    <<77, 101, 110, 115, 97, Space, 83, RuneUe, 100, Space, 40, 75, 105, 110, 111, 41>>

InitSafeName ==
    /\ RestIdle({"sn"})
    /\ \E name \in SeqsUpTo(NameRunes, MaxNameLen) \cup {ExampleName} : sn = SafeStart(name)
    /\ http = FetchIdle
    /\ hist = <<>>
    /\ dl = DiffIdle
    /\ disk = DiskIdle
    /\ cat = CatIdle
    /\ gen = GenIdle
    /\ enc = EncIdle

Transliterate ==
    /\ sn.pc = "loop"
    /\ sn' = SafeStep(sn)
    /\ UNCHANGED <<fetchVars, diffVars, catVars, genVars, xmlVars, ml, fa, md, bk, dy>>

NextSafeName == Transliterate

SpecSafeName == InitSafeName /\ [][NextSafeName]_vars

(***************************************************************************)
(* SpecBackup: runs with -u, one after the other                           *)
(***************************************************************************)
MaxUpdates == 3

\* What fetchIDs may return: identifiers with their safe names.
IdNames == {<<"321", "mensa_tu">>, <<"367", "hu_sued">>, <<"367", "hu_süd">>}

IdMaps == {m \in SUBSET IdNames : \A p, q \in m : p[1] = q[1] => p = q}

InitBackup ==
    /\ RestIdle({"bk"})
    /\ bk = BackupStart(1, NoJsonFiles)
    /\ http = FetchIdle
    /\ hist = <<>>
    /\ dl = DiffIdle
    /\ disk = DiskIdle
    /\ cat = CatIdle
    /\ gen = GenIdle
    /\ enc = EncIdle

FetchIDs ==
    /\ bk.pc = "fetchIDs"
    /\ \E m \in IdMaps : bk' = [bk EXCEPT !.ids = m, !.pc = "updateIDs"]
    /\ UNCHANGED <<fetchVars, diffVars, catVars, genVars, xmlVars, ml, fa, md, sn, dy>>

UpdateIDs ==
    /\ bk.pc = "updateIDs"
    /\ bk' = [bk EXCEPT !.fs = updateIDs(bk.fs, bk.ids), !.pc = "updateIndex"]
    /\ UNCHANGED <<fetchVars, diffVars, catVars, genVars, xmlVars, ml, fa, md, sn, dy>>

UpdateIndex ==
    /\ bk.pc = "updateIndex"
    /\ bk' = [bk EXCEPT !.fs = updateIndex(bk.fs, bk.ids), !.pc = "exited"]
    /\ UNCHANGED <<fetchVars, diffVars, catVars, genVars, xmlVars, ml, fa, md, sn, dy>>

NextUpdate ==
    /\ bk.pc = "exited"
    /\ bk.runs < MaxUpdates
    /\ bk' = BackupStart(bk.runs + 1, bk.fs)
    /\ UNCHANGED <<fetchVars, diffVars, catVars, genVars, xmlVars, ml, fa, md, sn, dy>>

NextBackup == FetchIDs \/ UpdateIDs \/ UpdateIndex \/ NextUpdate

SpecBackup == InitBackup /\ [][NextBackup]_vars

(***************************************************************************)
(* SpecDay: getDay on menu pages of a few blocks                           *)
(***************************************************************************)
MaxDayBlocks == 2

\* The texts of the br elements: none, the two no-offer texts, and the
\* first of them between a space and a line feed.
Captions == {<<>>, NoOfferPage, NoOfferBlock, <<Space>> \o NoOfferPage \o <<Newline>>}

\* Blocks without any div (then without name and meals), and blocks with
\* div.splGroup and no or one div.splMeal.
DayBlocks ==
    {[hasDiv |-> FALSE, caption |-> c, name |-> "", meals |-> <<>>] : c \in Captions}
        \cup {[hasDiv |-> TRUE, caption |-> c, name |-> "Essen", meals |-> m] :
                 c \in Captions, m \in SeqsUpTo(MealSet, 1)}

InitDay ==
    /\ RestIdle({"dy"})
    /\ \E bs \in SeqsUpTo(DayBlocks, MaxDayBlocks) : dy = DayStart(bs)
    /\ http = FetchIdle
    /\ hist = <<>>
    /\ dl = DiffIdle
    /\ disk = DiskIdle
    /\ cat = CatIdle
    /\ gen = GenIdle
    /\ enc = EncIdle

OpenDay ==
    /\ dy.pc = "fetch"
    /\ \E s \in FetchScripts : dy' = DayOpen(dy, FetchResult(s))
    /\ UNCHANGED <<fetchVars, diffVars, catVars, genVars, xmlVars, ml, fa, md, sn, bk>>

ScanBlock ==
    /\ dy.pc = "scan"
    /\ dy' = DayBlock(dy)
    /\ UNCHANGED <<fetchVars, diffVars, catVars, genVars, xmlVars, ml, fa, md, sn, bk>>

NextDayScan == OpenDay \/ ScanBlock

SpecDay == InitDay /\ [][NextDayScan]_vars

(***************************************************************************)
(* SpecNotes: the notes of a meal, the map ranged over in any order        *)
(***************************************************************************)
MaxIcons == 2

\* The src attributes: "/15.png", "/ampel_gruen_70x65.png", "/11.png",
\* "/115.png", "/5.png", "/a.gif", and "" for an icon without src.
IconUrls ==
    {<<47>> \o Suffix15, <<47>> \o SuffixGruen,
     <<47, 49, 49, 46, 112, 110, 103>>,
     <<47, 49, 49, 53, 46, 112, 110, 103>>,
     <<47, 53, 46, 112, 110, 103>>,
     <<47, 97, 46, 103, 105, 102>>, <<>>}

\* The texts of the div.kennz cells: none, or "2" and "a".
TextCells == {<<>>, <<(<<50>>), (<<97>>)>>}

InitNotes ==
    /\ RestIdle({"ml"})
    /\ \E icons \in SeqsUpTo(IconUrls, MaxIcons), text \in TextCells :
           ml = NotesStart(icons, text)
    /\ http = FetchIdle
    /\ hist = <<>>
    /\ dl = DiffIdle
    /\ disk = DiskIdle
    /\ cat = CatIdle
    /\ gen = GenIdle
    /\ enc = EncIdle

RangeNotesImg ==
    /\ ml.pc = "icons"
    /\ ml.k <= Len(ml.icons)
    /\ \E s \in ml.rest : ml' = RangeStep(ml, s)
    /\ UNCHANGED <<fetchVars, diffVars, catVars, genVars, xmlVars, fa, md, sn, bk, dy>>

RangeNotesImgEnd ==
    /\ ml.pc = "icons"
    /\ ml.k <= Len(ml.icons)
    /\ ml.rest = {}
    /\ ml' = RangeEnd(ml)
    /\ UNCHANGED <<fetchVars, diffVars, catVars, genVars, xmlVars, fa, md, sn, bk, dy>>

AppendTextNotes ==
    /\ ml.pc = "icons"
    /\ ml.k > Len(ml.icons)
    /\ ml' = TextNotes(ml)
    /\ UNCHANGED <<fetchVars, diffVars, catVars, genVars, xmlVars, fa, md, sn, bk, dy>>

NextNotes == RangeNotesImg \/ RangeNotesImgEnd \/ AppendTextNotes

SpecNotes == InitNotes /\ [][NextNotes]_vars

(***************************************************************************)
(* Claims about the fetcher (SpecFetch)                                    *)
(***************************************************************************)
\* An outcome the fetcher retries: a network error or the overloaded status.
Retryable(o) == o.err \/ o.status = StatusOverloaded

\* A response whose status is neither 200 nor 509.
OtherStatus(o) == ~o.err /\ o.status # StatusOK /\ o.status # StatusOverloaded

AllRetryable(h) == \A k \in 1..Len(h) : Retryable(h[k])

MixedRetryable(h) ==
    /\ \E k \in 1..Len(h) : h[k].err
    /\ \E k \in 1..Len(h) : ~h[k].err /\ h[k].status = StatusOverloaded

\* C2: one call of getHttpDoc makes at most 10 POST attempts and ends: it
\* never posts more than httpMaxRetries times, it is over once it has posted
\* 10 times, and on outcomes that are all network errors or status 509 it
\* keeps going up to the 10th attempt and then returns nil.
C2_AtMostTenAttempts ==
    /\ http.posts = Len(hist)
    /\ http.posts <= httpMaxRetries
    /\ (http.posts = httpMaxRetries => http.pc # "loop")
    /\ (AllRetryable(hist) =>
            IF Len(hist) < httpMaxRetries
            THEN http.pc = "loop"
            ELSE http.pc = "returned" /\ http.doc = "nil" /\ http.posts = httpMaxRetries)

C2_Witness ==
    /\ http.pc = "returned"
    /\ AllRetryable(hist)
    /\ MixedRetryable(hist)
    /\ http.posts = httpMaxRetries

\* C3: a response whose status is neither 200 nor 509 ends the call in the
\* step that receives it: that step adds no sleep, returns nil, and leaves no
\* further attempt possible, on whichever attempt it arrives.
C3_OtherStatusAborts ==
    [][(http.pc = "loop" /\ hist' # hist /\ OtherStatus(hist'[Len(hist')]))
          => /\ http'.sleeps = http.sleeps
             /\ http'.pc = "returned"
             /\ http'.doc = "nil"
             /\ ~http'.aborted]_vars

C3_Witness ==
    /\ Len(hist) = httpMaxRetries
    /\ OtherStatus(hist[Len(hist)])
    /\ http.pc = "returned"
    /\ http.doc = "nil"

\* C4 as stated: after every attempt n in 1..10 that ends in a network error
\* or in status 509 the call has slept n seconds and goes on to a further
\* attempt.
C4_RetryFollowsEverySleep ==
    (hist # <<>> /\ Retryable(hist[Len(hist)])) =>
        /\ Len(http.sleeps) = Len(hist)
        /\ http.sleeps[Len(hist)] = Len(hist) * httpSleepStep
        /\ http.pc = "loop"

\* C4 amended: attempt n that ends in a network error or in status 509 is
\* followed by a sleep of exactly n seconds, the same for both causes; a
\* further attempt follows for n < 10, and after the sleep of the 10th
\* attempt the call returns nil without another attempt.
C4_LinearBackoff ==
    (hist # <<>> /\ Retryable(hist[Len(hist)])) =>
        /\ Len(http.sleeps) = Len(hist)
        /\ \A k \in 1..Len(hist) : http.sleeps[k] = k * httpSleepStep
        /\ (Len(hist) < httpMaxRetries => http.pc = "loop")
        /\ (Len(hist) = httpMaxRetries =>
                http.pc = "returned" /\ http.doc = "nil" /\ http.aborted)

C4_Witness ==
    /\ Len(hist) = httpMaxRetries
    /\ MixedRetryable(hist)
    /\ Retryable(hist[Len(hist)])
    /\ http.sleeps[httpMaxRetries] = httpMaxRetries * httpSleepStep
    /\ http.pc = "returned"

(***************************************************************************)
(* Claims about diff (SpecDiff)                                            *)
(***************************************************************************)
\* C6: for sorted duplicate-free lists a and b (sorted by the order diff
\* compares with), diff(a, b) is exactly the elements of b that are not in
\* a, each once and in b's order; so with a the fresh list and b the union
\* with the historical list it is the identifiers seen before and absent now.
C6_DiffIsSetDifference ==
    dl.pc = "done" =>
        dl.d = SelectSeq(dl.b, LAMBDA x : x \notin Range(dl.a))

\* historical all {101, 102}, fresh {102, 103}: archive delta {101}
C6_Witness ==
    /\ dl.pc = "done"
    /\ dl.a = <<Id102, Id103>>
    /\ dl.b = UniqueSort(<<Id101, Id102>> \o dl.a)
    /\ dl.b = <<Id101, Id102, Id103>>
    /\ dl.d = <<Id101>>

(***************************************************************************)
(* Claims about the catalog (SpecCatalog)                                  *)
(***************************************************************************)
\* The positions of a run at which ids_all has been written.
AfterSaveAll == {"genIndex", "generate", "exited"}

\* C5: the 'all' set a run has persisted (as the next run will load it) is
\* the union of the 'all' set this run loaded and this run's fresh
\* identifiers, so no member is ever lost.
C5_AllIsUnionOfLoadedAndFresh ==
    cat.pc \in AfterSaveAll =>
        Range(loadIds(disk.all).ids) = Range(cat.loaded) \cup Range(cat.fetched)

\* Numeric order of the numeric strings of a list.
NumericOrdered(list) ==
    \A m, n \in 1..Len(list) :
        (m < n /\ IsNumeric(list[m]) /\ IsNumeric(list[n])) =>
            Atoi(list[m]) < Atoi(list[n])

\* C7: the persisted 'current' list is this run's fetched identifiers, each
\* once, and 'current', 'archive' and 'all' are written with their numeric
\* identifiers in increasing numeric value ("9" before "10").
C7_PersistedInNumericOrder ==
    cat.pc \in AfterSaveAll =>
        /\ disk.cur = saveIds(cat.idsCur).file
        /\ Range(cat.idsCur) = Range(cat.fetched)
        /\ \A m, n \in 1..Len(cat.idsCur) : m # n => cat.idsCur[m] # cat.idsCur[n]
        /\ NumericOrdered(cat.idsCur)
        /\ NumericOrdered(cat.idsArchive)
        /\ NumericOrdered(cat.idsAll)

\* C8: a run that is to persist an identifier with a newline leaves all four
\* catalog files as it found them (nothing created, truncated or rewritten).
C8_NewlineAbortsBeforeAnyWrite ==
    (/\ cat.pc \notin {"start", "panicked"}
     /\ \E id \in Range(cat.idsCur) \cup Range(cat.idsArchive) \cup Range(cat.idsAll) :
            ContainsNewline(id))
        => disk = cat.disk0

\* C9: when ids_all does not exist at the start of a run whose fetch gave a
\* document, loadIds returns the empty list without failure, and the
\* reconciliation yields newAll = current and an empty archive delta.
C9_FirstRunBootstrap ==
    (cat.fetch = "doc" /\ ~cat.disk0.all.exists) =>
        /\ ~cat.loadErr
        /\ cat.loaded = <<>>
        /\ cat.idsAll = cat.idsCur
        /\ cat.idsArchive = <<>>

C9_Witness ==
    /\ cat.pc = "exited"
    /\ ~cat.disk0.all.exists
    /\ Len(cat.idsCur) = 2
    /\ cat.idsAll = cat.idsCur
    /\ disk.all.exists

\* The lines of a file, each ended by a line feed, as saveIds writes them.
RECURSIVE FileLines(_, _)
FileLines(data, line) ==
    IF data = <<>> THEN (IF line = <<>> THEN <<>> ELSE <<line>>)
    ELSE IF Head(data) = 10 THEN <<line>> \o FileLines(Tail(data), <<>>)
    ELSE FileLines(Tail(data), Append(line, Head(data)))

CompletedRun == cat.pc \in {"generate", "exited"}

\* C22: after every completed catalog run the three persisted lists form a
\* partition: current and archive are disjoint, together they are all, and
\* each file lists every identifier at most once.
C22_PersistedSetsPartition ==
    CompletedRun =>
        LET cur     == FileLines(disk.cur.data, <<>>)
            archive == FileLines(disk.archive.data, <<>>)
            all     == FileLines(disk.all.data, <<>>)
        IN /\ disk.cur.exists /\ disk.archive.exists /\ disk.all.exists
           /\ Range(cur) \cap Range(archive) = {}
           /\ Range(cur) \cup Range(archive) = Range(all)
           /\ Cardinality(Range(cur)) = Len(cur)
           /\ Cardinality(Range(archive)) = Len(archive)
           /\ Cardinality(Range(all)) = Len(all)

C22_Witness ==
    /\ cat.pc = "exited"
    /\ cat.runs >= 2
    /\ Len(cat.fetched) > Len(cat.idsCur)
    /\ cat.idsCur # <<>>
    /\ cat.idsArchive # <<>>
    /\ disk.archive.data # <<>>

(***************************************************************************)
(* Claims about the generation loops (SpecGen)                             *)
(***************************************************************************)
CorruptBody == \E k \in 1..Len(gen.fetches) : gen.fetches[k].res = "panic"

\* C1: a fetch that returns failure (retry budget exhausted, or a status
\* that is not retried) for one identifier or one date never terminates the
\* run: the caller skips that identifier or date and goes on.  Stated on the
\* run: the process dies in the generation loops only when a fetch itself
\* panicked on a body that does not parse, never on a failed fetch.
C1_FailedFetchNeverEndsRun == gen.pc = "panicked" => CorruptBody

(***************************************************************************)
(* Claims about the serializer (SpecXml)                                   *)
(***************************************************************************)
EmptyCategoryElementAt(k) ==
    /\ enc.out[k].t = "start"
    /\ enc.out[k].name = "category"
    /\ enc.out[k + 1] = End("category")

\* C10: a Category with zero Meals is never written: whatever Canteen is
\* passed to Write, a Day mixing Categories with and without Meals
\* included, the output holds no category element without a meal in it.
C10_NoElementForEmptyCategory ==
    \A k \in 1..(Len(enc.out) - 1) : ~EmptyCategoryElementAt(k)

\* The positions of the day elements in the output, and the k-th of them.
DayStarts == {i \in 1..Len(enc.out) : enc.out[i].t = "start" /\ enc.out[i].name = "day"}

DayEnds == {i \in 1..Len(enc.out) : enc.out[i].t = "end" /\ enc.out[i].name = "day"}

Nth(S, k) == CHOOSE i \in S : Cardinality({j \in S : j < i}) = k - 1

ClosedMarkersIn(a, b) ==
    {i \in (a + 1)..(b - 1) : enc.out[i].t = "elem" /\ enc.out[i].name = "closed"}

CategoriesIn(a, b) ==
    {i \in (a + 1)..(b - 1) : enc.out[i].t = "start" /\ enc.out[i].name = "category"}

DayRenderedRight(k) ==
    LET d == enc.c.Days[k]
        a == Nth(DayStarts, k)
        b == Nth(DayEnds, k)
    IN /\ a < b
       /\ k < Cardinality(DayStarts) => b < Nth(DayStarts, k + 1)
       /\ enc.out[a].attr = d.Date
       /\ IF DayClosed(d)
          THEN Cardinality(ClosedMarkersIn(a, b)) = 1 /\ CategoriesIn(a, b) = {}
          ELSE ClosedMarkersIn(a, b) = {} /\ CategoriesIn(a, b) # {}

\* C11: every Day is written as one day element with its date; it holds
\* exactly one closed marker and no category child when every Category of
\* the Day has no Meals (a Day without Categories included), and no closed
\* marker and at least one category child otherwise.
C11_DayClosedOrCategories ==
    /\ Cardinality(DayStarts) = (IF enc.pc \in {"footer", "done"} THEN Len(enc.c.Days)
                                 ELSE enc.d - 1)
    /\ Cardinality(DayEnds) = Cardinality(DayStarts)
    /\ \A k \in 1..Cardinality(DayStarts) : DayRenderedRight(k)

C11_Witness ==
    /\ enc.pc = "done"
    /\ Len(enc.c.Days) = 2
    /\ enc.c.Days[1].Categories = <<>>
    /\ ~DayClosed(enc.c.Days[2])
    /\ \E k \in 1..Len(enc.c.Days[2].Categories) : enc.c.Days[2].Categories[k].Meals = <<>>

TimesTokens == {i \in 1..Len(enc.out) : enc.out[i].name = "times"}

WeekdayTokens == {i \in 1..Len(enc.out) : enc.out[i].t = "elemattr"}

TimesWritten == enc.pc \in {"days", "footer", "done", "panicked"}

SevenWeekdaysInOrder ==
    LET oh    == enc.c.Times.openingHours
        names == <<"monday", "tuesday", "wednesday", "thursday", "friday",
                   "saturday", "sunday">>
        a     == CHOOSE i \in TimesTokens : enc.out[i].t = "start"
    IN /\ \E i \in TimesTokens : enc.out[i].t = "start"
       /\ WeekdayTokens = (a + 1)..(a + 7)
       /\ enc.out[a + 8].t = "end" /\ enc.out[a + 8].name = "times"
       /\ \A i \in 1..7 :
            /\ enc.out[a + i].name = names[i]
            /\ enc.out[a + i].attr = (IF oh[i] = "" THEN <<"closed", "true">>
                                      ELSE <<"open", oh[i]>>)

\* C12: Times with exactly 7 slots is written as exactly seven weekday
\* elements, monday to sunday in that order, element i with closed="true"
\* when slot i is empty and open="<slot i>" otherwise; writing Times whose
\* slots are neither none nor 7 is fatal and writes no times element.
C12_SevenWeekdaysOrFatal ==
    (TimesWritten /\ ~enc.c.Times.nil) =>
        /\ Len(enc.c.Times.openingHours) = 7 => (enc.pc # "panicked" /\ SevenWeekdaysInOrder)
        /\ Len(enc.c.Times.openingHours) \notin {0, 7} =>
                (enc.pc = "panicked" /\ TimesTokens = {} /\ WeekdayTokens = {})

C12_Witness ==
    /\ enc.pc = "done"
    /\ ~enc.c.Times.nil
    /\ Len(enc.c.Times.openingHours) = 7
    /\ enc.c.Times.openingHours[1] # ""
    /\ enc.c.Times.openingHours[7] = ""

(***************************************************************************)
(* Claims about the meal prices (SpecMeal)                                 *)
(***************************************************************************)
PriceMatches == FindAllPrices(ml.region, 1)

CommaToDot(s) == [k \in 1..Len(s) |-> IF s[k] = 44 THEN 46 ELSE s[k]]

\* C13: with n the number of matches of \d+,\d{2} in the price region, n = 0
\* gives no prices and no log line, n = 1 one Price tagged other, n = 3
\* three Prices tagged student, employee, other in match order, any other n
\* no prices and one log line; each amount is the match with its comma
\* turned into a dot.
C13_PricesByMatchCount ==
    ml.pc = "done" =>
        LET m == PriceMatches
            n == Len(m)
        IN /\ n = 0 => (ml.prices = <<>> /\ ml.logs = 0)
           /\ n = 1 => (ml.prices = <<[Price |-> CommaToDot(m[1]), Role |-> "other"]>>
                        /\ ml.logs = 0)
           /\ n = 3 => (/\ ml.prices = <<[Price |-> CommaToDot(m[1]), Role |-> "student"],
                                         [Price |-> CommaToDot(m[2]), Role |-> "employee"],
                                         [Price |-> CommaToDot(m[3]), Role |-> "other"]>>
                        /\ ml.logs = 0)
           /\ n \notin {0, 1, 3} => (ml.prices = <<>> /\ ml.logs = 1)

C13_Witness ==
    /\ ml.pc = "done"
    /\ Len(ml.prices) = 3
    /\ ml.prices[1].Price # ml.prices[2].Price

(***************************************************************************)
(* Claims about getMeals (SpecMeals)                                       *)
(***************************************************************************)
\* The calendar day after a date.
NextDay(c) ==
    IF c[3] < MonthLength(c[1], c[2]) THEN <<c[1], c[2], c[3] + 1>>
    ELSE IF c[2] < 12 THEN <<c[1], c[2] + 1, 1>>
    ELSE <<c[1] + 1, 1, 1>>

WeekdayTokens7 == {"Mo", "Di", "Mi", "Do", "Fr", "Sa", "So"}

WeekdayNumber(tok) ==
    CASE tok = "Mo" -> 0 [] tok = "Di" -> 1 [] tok = "Mi" -> 2 [] tok = "Do" -> 3
      [] tok = "Fr" -> 4 [] tok = "Sa" -> 5 [] tok = "So" -> 6

\* The loop is about to read a block the expression matches, one that names
\* weekdays.
BlockRead ==
    /\ md.pc = "hours"
    /\ md.i < 7
    /\ md.i + 1 <= Len(md.blocks)
    /\ md.blocks[md.i + 1].match
    /\ md.blocks[md.i + 1].dayStart \in WeekdayTokens7
    /\ md.blocks[md.i + 1].dayEnd \in WeekdayTokens7 \cup {""}

BlockStart == WeekdayNumber(md.blocks[md.i + 1].dayStart)

BlockEnd ==
    IF md.blocks[md.i + 1].dayEnd = "" THEN BlockStart
    ELSE WeekdayNumber(md.blocks[md.i + 1].dayEnd)

BlockHours == md.blocks[md.i + 1].hoursStart \o <<45>> \o md.blocks[md.i + 1].hoursEnd

\* C15: a matched opening-hours block with start weekday s and end weekday
\* e (e = s without an end day), s <= e, sets exactly the slots s..e
\* (0 = Monday) to "HH:MM-HH:MM" of its two times, and every other slot
\* keeps the value it had before the block.
C15_BlockFillsItsRange ==
    [][(BlockRead /\ BlockStart <= BlockEnd) =>
          /\ md'.pc = "hours"
          /\ \A j \in 0..6 :
                md'.openingHours[j + 1] =
                    (IF BlockStart <= j /\ j <= BlockEnd THEN BlockHours
                     ELSE md.openingHours[j + 1])]_vars

\* "Mo" to "Fr", 08:00 - 16:00, after a block that set Sunday.
C15_Witness ==
    /\ md.pc = "hours"
    /\ md.i = 2
    /\ md.blocks[1].dayStart = "So" /\ md.blocks[1].dayEnd = ""
    /\ md.blocks[1].hoursStart = <<49, 49, 58, 51, 48>>
    /\ md.blocks[2].dayStart = "Mo" /\ md.blocks[2].dayEnd = "Fr"
    /\ md.blocks[2].hoursStart = <<48, 56, 58, 48, 48>>
    /\ \A j \in 1..5 : md.openingHours[j] = <<48, 56, 58, 48, 48, 45, 49, 54, 58, 48, 48>>
    /\ md.openingHours[6] = <<>>
    /\ md.openingHours[7] = <<49, 49, 58, 51, 48, 45, 49, 54, 58, 48, 48>>

\* C16: a matched block whose end weekday precedes its start weekday ends
\* the process: the range is not swapped, clipped or skipped, no slot is
\* written for the block, and no Canteen is returned.
C16_EndBeforeStartIsFatal ==
    [][(BlockRead /\ BlockEnd < BlockStart) =>
          /\ md'.pc = "panicked"
          /\ md'.openingHours = md.openingHours
          /\ md'.canteen = "none"]_vars

C16_Witness ==
    /\ md.pc = "panicked"
    /\ md.died = "hours"
    /\ md.i = 1
    /\ md.blocks[2].dayStart = "Fr"
    /\ md.blocks[2].dayEnd = "Mo"
    /\ md.canteen = "none"

\* C17: name extraction never ends the run: with an empty selected name,
\* when a step of the fallback chain fails (no document or a short title
\* from the direct link, no iframe, no document from the iframe, no mensa=
\* or no JSON entry, a JSON text that does not decode) the failure is logged
\* and getMetadata goes on to return a Canteen.  Stated on the run: the
\* process dies in the name extraction only when the second fetch itself
\* panicked on a body that does not parse.
C17_NameFallbackNeverAborts == md.died = "name" => md.page.res2 = "panic"

(***************************************************************************)
(* Claims about the safe names (SpecSafeName)                              *)
(***************************************************************************)
\* C18: for every display name the safe name matches ^[a-z0-9_]+$: it is
\* not empty and holds only lowercase ASCII letters, digits and underscores.
C18_SafeNameMatchesPattern ==
    sn.pc = "done" =>
        /\ sn.out # <<>>
        /\ \A k \in 1..Len(sn.out) : sn.out[k] \in (97..122) \cup (48..57) \cup {95}

\* The code points whose branch writes safeName[j] and safeName[j+1].
TwoByteWrites == {RuneAe, RuneOe, RuneUe, RuneSz}

\* The branch of code point c writes safeName[j] only, with j = Len(safe).
OneByteWrite(safe, c) ==
    \/ c \in LowerLetters \cup Digits \cup UpperLetters \cup {RuneEAcute}
    \/ /\ c \notin TwoByteWrites
       /\ Len(safe) > 0
       /\ safe[Len(safe)] # Underscore

\* C24: every write into the safe-name buffer stays inside it: the index j
\* never exceeds the buffer's length, the byte length of the name; a one-byte
\* write happens with j below it and a two-byte write with j + 1 below it.
C24_WritesStayInBuffer ==
    /\ sn.pc # "panicked"
    /\ sn.pc \in {"loop", "done"} =>
          /\ Len(sn.safe) <= sn.size
          /\ sn.size = ByteLen(sn.name)
          /\ Len(sn.safe) <= ByteLen(SubSeq(sn.name, 1, sn.k - 1))
    /\ (sn.pc = "loop" /\ sn.k <= Len(sn.name)) =>
          LET c == sn.name[sn.k]
              j == Len(sn.safe)
          IN /\ c \in TwoByteWrites => j + 1 < sn.size
             /\ OneByteWrite(sn.safe, c) => j < sn.size

\* "äßü" gives "aessue", which fills the buffer of six bytes.
C24_Witness ==
    /\ sn.pc = "done"
    /\ sn.name = <<RuneAe, RuneSz, RuneUe>>
    /\ sn.out = <<97, 101, 115, 115, 117, 101>>
    /\ Len(sn.out) = sn.size

(***************************************************************************)
(* Claims about the backups (SpecCatalog for the lists, SpecBackup for -u) *)
(***************************************************************************)
\* With -u, the .old names hold what ids.json and index.json held before
\* the run rewrote them (the part of C19 about the JSON files).
JsonBackupKept ==
    /\ (bk.pc \in {"updateIndex", "exited"} /\ bk.fs0.ids.exists) => bk.fs.idsOld = bk.fs0.ids
    /\ (bk.pc = "exited" /\ bk.fs0.index.exists) => bk.fs.indexOld = bk.fs0.index

\* The positions of a catalog run at which ids_current has been rewritten.
AfterSaveCur == {"saveArchive", "saveAll", "genIndex", "generate", "exited"}

\* C19: whenever a run rewrites a persisted identifier file that already
\* exists, the prior version is kept as <file>.old: the .old name holds what
\* the file held just before the most recent update.  Here for the lists of
\* the catalog: ids_current, ids_archive, ids_all and the index.
C19_PriorVersionKeptAsOld ==
    /\ (cat.pc \in AfterSaveCur /\ cat.disk0.cur.exists) => disk.curOld = cat.disk0.cur
    /\ (cat.pc \in {"generate", "exited"} /\ cat.disk0.archive.exists) =>
            disk.archiveOld = cat.disk0.archive
    /\ (cat.pc \in {"generate", "exited"} /\ cat.disk0.all.exists) =>
            disk.allOld = cat.disk0.all
    /\ (cat.pc \in {"generate", "exited"} /\ cat.disk0.index.exists) =>
            disk.indexOld = cat.disk0.index

(***************************************************************************)
(* Claims about the order of the fetches (SpecGen)                         *)
(***************************************************************************)
\* The position of an identifier in idsCur.
IdPosition(id) == CHOOSE k \in 1..Len(gen.idsCur) : gen.idsCur[k] = id

FetchNo == 1..Len(gen.fetches)

\* C20 as stated: the fetches of one identifier, its metadata and then all
\* of its days, are completed before any fetch for the next identifier
\* begins.
C20_OneIdentifierAtATime ==
    \A a, b \in FetchNo :
        a < b => IdPosition(gen.fetches[a].id) <= IdPosition(gen.fetches[b].id)

\* C20, amended: the fetches are made one after the other in two passes.
\* The first pass fetches the metadata of every identifier in list order;
\* only then the second pass fetches, identifier by identifier in list
\* order, all days of the identifier in increasing offset order, from
\* daysBefore on without a gap.
C20_TwoPassesInOrder ==
    /\ \A a, b \in FetchNo :
         (a < b /\ gen.fetches[a].what = "day") => gen.fetches[b].what = "day"
    /\ \A b \in FetchNo :
         gen.fetches[b].what = "day" =>
            \A k \in 1..Len(gen.idsCur) :
               \E a \in 1..(b - 1) :
                  gen.fetches[a].what = "meta" /\ gen.fetches[a].id = gen.idsCur[k]
    /\ \A a, b \in FetchNo :
         (a < b /\ gen.fetches[a].what # "day" /\ gen.fetches[b].what # "day") =>
             IdPosition(gen.fetches[a].id) <= IdPosition(gen.fetches[b].id)
    /\ \A b \in FetchNo :
         gen.fetches[b].what = "day" =>
            IF b > 1 /\ gen.fetches[b - 1].what = "day"
            THEN \/ /\ gen.fetches[b].id = gen.fetches[b - 1].id
                    /\ gen.fetches[b].off = gen.fetches[b - 1].off + 1
                 \/ /\ IdPosition(gen.fetches[b].id) = IdPosition(gen.fetches[b - 1].id) + 1
                    /\ gen.fetches[b - 1].off = daysAfter
                    /\ gen.fetches[b].off = daysBefore
            ELSE gen.fetches[b].id = gen.idsCur[1] /\ gen.fetches[b].off = daysBefore

C20_Witness ==
    /\ gen.pc = "done"
    /\ Len(gen.idsCur) = 2
    /\ \E b \in FetchNo : gen.fetches[b].what = "name"
    /\ Cardinality({b \in FetchNo : gen.fetches[b].what = "day"}) = 46

(***************************************************************************)
(* Claims about getDay's scan (SpecDay)                                    *)
(***************************************************************************)
\* Block 0 has no nested element and the caption "Kein Speisenangebot".
FirstBlockSaysNoOffer ==
    /\ Len(dy.blocks) >= 1
    /\ ~dy.blocks[1].hasDiv
    /\ TrimSpace(dy.blocks[1].caption) =
          <<75, 101, 105, 110, 32, 83, 112, 101, 105, 115, 101, 110, 97, 110, 103,
            101, 98, 111, 116>>

\* C21: the no-offer check on the first block is the check made on the
\* page: whenever block 0 has no nested element and the caption
\* "Kein Speisenangebot", the scan stops and the Day is returned without
\* categories.
C21_FirstBlockNoOfferStopsScan ==
    (dy.pc = "returned" /\ FirstBlockSaysNoOffer) => dy.d.Categories = <<>>

\* The keys of the table that end the URL.
MatchingSuffixes(url) == {s \in DOMAIN notesImg : HasSuffix(url, s)}

\* The notes the icons read so far give, by the URL alone.
RECURSIVE NotesByUrl(_)
NotesByUrl(icons) ==
    IF icons = <<>> THEN <<>>
    ELSE LET m == MatchingSuffixes(Head(icons))
         IN (IF m = {} THEN <<>> ELSE <<notesImg[CHOOSE s \in m : TRUE]>>)
            \o NotesByUrl(Tail(icons))

\* C23: each icon gives at most one note, the note of the one key of the table
\* that ends its URL; no key of the table ends another key, so no URL ends
\* with two keys and the notes do not depend on the order of the range.
C23_NotesDeterminedByUrl ==
    /\ \A a \in DOMAIN notesImg : \A c \in DOMAIN notesImg : a # c => ~HasSuffix(a, c)
    /\ ml.pc \in {"icons", "noted"} =>
          /\ \A i \in 1..Len(ml.icons) : Cardinality(MatchingSuffixes(ml.icons[i])) <= 1
          /\ LET read == SubSeq(ml.icons, 1, ml.k - 1)
             IN ml.notes = NotesByUrl(read) \o (IF ml.pc = "noted" THEN ml.text ELSE <<>>)
          /\ Len(ml.notes) <= (ml.k - 1) + (IF ml.pc = "noted" THEN Len(ml.text) ELSE 0)

\* Two icons read, "/15.png" giving "vegan" and "/11.png" giving "vegetarisch".
C23_Witness ==
    /\ ml.pc = "noted"
    /\ ml.icons = <<(<<47>> \o Suffix15), <<47, 49, 49, 46, 112, 110, 103>>>>
    /\ ml.notes = <<notesImg[Suffix15], notesImg[Suffix1]>> \o ml.text

====
